---------------------------- MODULE Spec2Model ----------------------------
(***************************************************************************)
(* A model of the helix plugin host (helix-plugin-host) and of the way it  *)
(* talks to one plugin process.                                            *)
(*                                                                         *)
(* Two specifications share this module:                                   *)
(*                                                                         *)
(*   Spec      one PluginProcess (plugin.rs): concurrent send_request      *)
(*             calls, the stdout reader task, and the plugin as an         *)
(*             arbitrary environment that writes response lines and        *)
(*             closes its pipes.                                           *)
(*   SpecHost  the PluginManager behind its mutex (server.rs): concurrent  *)
(*             LSP initialize / executeCommand / shutdown handlers.        *)
(***************************************************************************)
EXTENDS Integers, Sequences, FiniteSets, TLC

\* ------------------------------------------------------------------ bounds

\* Number of send_request calls made on the PluginProcess.
MaxCalls == 2
\* Number of lines the plugin writes to its stdout.
MaxLines == 2

\* Number of LSP requests the editor sends to the host.
MaxTasks == 3
\* Number of lines the SDK runtime is given on its stdin.
MaxRequests == 3
\* Number of register_command calls the plugin's initialize makes.
MaxRegisters == 2
Calls == 1..MaxCalls
Tasks == 1..MaxTasks
\* The plugin entries of the manifest file, in declared order: two plugins.
Entries == {1, 2}
\* Ids a response line may carry: every id a call can get, and one more that
\* no call is ever given (an unknown id).
LineIds == 1..(MaxCalls + 1)

VARIABLES
    \* ---- PluginProcessInner (plugin.rs:26-34)
    nextRequestId,  \* next_request_id: AtomicU64
    pending,        \* pending: HashMap<u64, oneshot::Sender>, id -> the call whose sender it is
    writerHolder,   \* writer: Mutex<ChildStdin>, the call holding the guard (0: free)
    \* ---- one send_request future per call (plugin.rs:107-140)
    pc,             \* where the call is
    reqId,          \* its local `id`
    chan,           \* its oneshot channel (tx, rx)
    result,         \* what send_request returned
    \* ---- the pipes and the reader task (plugin.rs:152-184)
    stdinLog,       \* what has been written to the plugin's stdin
    stdinOpen,      \* the plugin still has the read end of its stdin open
    stdout,         \* lines the plugin wrote and the reader has not read yet
    stdoutOpen,     \* the plugin still has its stdout open
    readerState,    \* "running" | "exited"
    linesWritten,   \* number of lines the plugin wrote
    \* ---- history
    insertCount,    \* id -> number of pending.insert(id, _)
    removeCount,    \* id -> number of removals of id from pending
    drained,        \* ids removed by drain_pending_with_failure
    delivered,      \* ids of the responses handed to a waiter, in order
    forwarded,      \* notifications the reader sent to the editor, in order
    \* ---- the handles and the child (plugin.rs:21-34, 197-210)
    handles,        \* "held" | "dropped": the PluginProcess handles of the manager
    child           \* "running" | "killed": PluginProcessInner::child

VARIABLES
    \* ---- the manifest file and PluginManager behind its mutex (server.rs:63-68, 186)
    manifest,       \* the manifest file: "ok" | "missing" | "malformed"
    mgrLock,        \* manager: Arc<Mutex<PluginManager>>, the task holding the guard (0: free)
    initialized,    \* PluginManager::initialized
    plugins,        \* PluginManager::plugins, a sequence of processes
    commands,       \* PluginManager::commands, command id -> process
    procs,          \* every process spawned so far: its manifest entry, whether the
                    \* child is running (the host has neither killed it nor waited
                    \* for its exit), the task whose ensure_initialized spawned it,
                    \* how its handshake ended, the requests it was sent
    \* ---- one LanguageServer handler future per task
    tkind,          \* "none" | "initialize" | "execute" | "shutdown"
    tpc,            \* where the handler is
    tidx,           \* position of its loop over manifest.plugins / self.plugins
    tproc,          \* the process it talks to (0: none)
    tcmd,           \* executeCommand's params.command
    tout,           \* what the handler returned
    \* ---- history, since the last completed shutdown_all
    loads,          \* number of PluginManifest::load calls
    spawns,         \* entry -> number of PluginProcess::spawn calls
    handshakes,     \* entry -> number of initialize requests sent
    failedInits,    \* number of ensure_initialized calls that returned Err
    successInits,   \* number of ensure_initialized calls that loaded and returned Ok
    seen            \* task -> the registry keys when its ensure_initialized returned Ok

VARIABLES
    \* ---- runtime::run of the SDK (lib.rs:317-411)
    sdkIn,          \* lines on the plugin's stdin the loop has not read yet
    sdkInOpen,      \* the plugin's stdin has not been closed
    sdkOut,         \* lines send_message wrote to the plugin's stdout
    sdkPc,          \* "reading" | "initializing" | "executing" | "returned" | "failed"
    sdkInitialized, \* the local `initialized`
    registry,       \* the local `registry`: CommandRegistry { commands, seen }
    sdkReq,         \* the request the user's initialize / execute is running for
    \* ---- history
    fedCount,       \* number of lines given to the runtime
    registerLog,    \* the register_command calls: the id and whether Ok was returned
    userInitCalls,  \* number of calls of Plugin::initialize
    userExecCalls   \* number of calls of Plugin::execute

sdkVars == <<sdkIn, sdkInOpen, sdkOut, sdkPc, sdkInitialized, registry, sdkReq,
             fedCount, registerLog, userInitCalls, userExecCalls>>

hostVars == <<manifest, mgrLock, initialized, plugins, commands, procs,
              tkind, tpc, tidx, tproc, tcmd, tout,
              loads, spawns, handshakes, failedInits, successInits, seen>>

procVars == <<nextRequestId, pending, writerHolder, pc, reqId, chan, result,
              stdinLog, stdinOpen, stdout, stdoutOpen, readerState,
              linesWritten, insertCount, removeCount, drained, delivered,
              forwarded, handles, child>>

\* ------------------------------------------------------------- the values

\* PluginResponse values (lib.rs).  `origin` is the id of the response line
\* the value arrived in (0: made by the host itself).
PluginResult(i) == [type |-> "command_result", message |-> "", origin |-> i]

\* plugin.rs:234-236: the synthetic response of the drain.
DisconnectedMessageWrong == "plugin stdout closed"
DisconnectedMessage == "plugin <name> disconnected"
Disconnected == [type |-> "command_error", message |-> DisconnectedMessage, origin |-> 0]

\* oneshot channel states.
ChanEmpty == [state |-> "empty", value |-> PluginResult(0)]
ChanSent(v) == [state |-> "sent", value |-> v]
ChanSenderDropped == [state |-> "sender_dropped", value |-> PluginResult(0)]

\* Result<PluginResponse> of send_request.
NoResult == [tag |-> "none", error |-> "", value |-> PluginResult(0)]
Ok(v) == [tag |-> "Ok", error |-> "", value |-> v]
Err(e) == [tag |-> "Err", error |-> e, value |-> PluginResult(0)]

\* MessageLevel (lib.rs:48-57).
Levels == {"error", "warning", "info", "log"}

\* A line of the plugin's stdout: PluginMessage::Response { id, result },
\* PluginMessage::Event { event } with a ShowMessage or a Log event, an empty
\* line, a line that is not a PluginMessage, or a line whose bytes are not
\* UTF-8.
ResponseLine(i) == [kind |-> "response", id |-> i, result |-> PluginResult(i), level |-> ""]
EventLine(kind, level) == [kind |-> kind, id |-> 0, result |-> PluginResult(0), level |-> level]
EmptyLine == [kind |-> "empty", id |-> 0, result |-> PluginResult(0), level |-> ""]
MalformedLine == [kind |-> "malformed", id |-> 0, result |-> PluginResult(0), level |-> ""]
InvalidUtf8Line == [kind |-> "invalid_utf8", id |-> 0, result |-> PluginResult(0), level |-> ""]
\* The lines other than responses the plugin writes.
OtherLines == {EventLine("show_message", "error"), EventLine("show_message", "info"),
               EventLine("log", "warning"), EventLine("log", "log"),
               EmptyLine, MalformedLine, InvalidUtf8Line}

\* Lines::next_line (plugin.rs:157): a line that is not UTF-8 gives Err.
NextLineFails(line) == line.kind = "invalid_utf8"

\* serde_json::from_str::<PluginMessage>(&line) (plugin.rs:158): which arm of
\* the match the line takes.
DecodeLine(line) ==
    IF line.kind = "response" THEN "Response"
    ELSE IF line.kind \in {"show_message", "log"} THEN "Event"
    ELSE "Err"

\* Tokens of the plugin's stdin.
Body(i) == [part |-> "body", id |-> i]
Newline(i) == [part |-> "newline", id |-> i]

Min(S) == CHOOSE x \in S : \A y \in S : x <= y

\* ------------------------------------------------------------ the process

InitProc ==
    /\ nextRequestId = 1
    /\ pending = <<>>
    /\ writerHolder = 0
    /\ pc = [c \in Calls |-> "idle"]
    /\ reqId = [c \in Calls |-> 0]
    /\ chan = [c \in Calls |-> ChanEmpty]
    /\ result = [c \in Calls |-> NoResult]
    /\ stdinLog = <<>>
    /\ stdinOpen = TRUE
    /\ stdout = <<>>
    /\ stdoutOpen = TRUE
    /\ readerState = "running"
    /\ linesWritten = 0
    /\ insertCount = [i \in LineIds |-> 0]
    /\ removeCount = [i \in LineIds |-> 0]
    /\ drained = {}
    /\ delivered = <<>>
    /\ forwarded = <<>>
    /\ handles = "held"
    /\ child = "running"

\* plugin.rs:108: fetch_add(1) returns the old value and stores this one.
FetchAddNoIncrement(n) == n
FetchAdd(n) == n + 1

\* plugin.rs:111-117: after the id is allocated the entry is inserted, and
\* only then is the writer taken.
AfterAllocateNoInsert == "lock_writer"
AfterAllocate == "insert"

\* plugin.rs:108-109.  Calls are numbered in the order of their fetch_add,
\* which is the first thing send_request does; a call needs a handle
\* (&self).
AllocateId(c) ==
    /\ pc[c] = "idle"
    /\ handles = "held"
    /\ \A d \in Calls : d < c => pc[d] # "idle"
    /\ reqId' = [reqId EXCEPT ![c] = nextRequestId]
    /\ nextRequestId' = FetchAdd(nextRequestId)
    /\ pc' = [pc EXCEPT ![c] = AfterAllocate]
    /\ UNCHANGED <<pending, writerHolder, chan, result, stdinLog, stdinOpen,
                   stdout, stdoutOpen, readerState, linesWritten,
                   insertCount, removeCount, drained, delivered>>
    /\ UNCHANGED <<forwarded, handles, child>>
    /\ UNCHANGED <<hostVars, sdkVars>>

\* HashMap::insert: the entry for `id` now holds the sender of call c.
MapInsert(m, id, c) == [k \in (DOMAIN m) \cup {id} |-> IF k = id THEN c ELSE m[k]]
MapRemove(m, id) == [k \in (DOMAIN m) \ {id} |-> m[k]]

\* plugin.rs:111-115.  A sender the insert replaces is dropped.
InsertPending(c) ==
    /\ pc[c] = "insert"
    /\ pending' = MapInsert(pending, reqId[c], c)
    /\ chan' = IF reqId[c] \in DOMAIN pending /\ chan[pending[reqId[c]]].state = "empty"
                 THEN [chan EXCEPT ![pending[reqId[c]]] = ChanSenderDropped]
                 ELSE chan
    /\ insertCount' = [insertCount EXCEPT ![reqId[c]] = @ + 1]
    /\ pc' = [pc EXCEPT ![c] = "lock_writer"]
    /\ UNCHANGED <<nextRequestId, writerHolder, reqId, result, stdinLog,
                   stdinOpen, stdout, stdoutOpen, readerState, linesWritten,
                   removeCount, drained, delivered>>
    /\ UNCHANGED <<forwarded, handles, child>>
    /\ UNCHANGED <<hostVars, sdkVars>>

\* plugin.rs:117: writer.lock().await completes when no guard is alive.
WriterFreeAlways == TRUE
WriterFree == writerHolder = 0

LockWriter(c) ==
    /\ pc[c] = "lock_writer"
    /\ WriterFree
    /\ writerHolder' = c
    /\ pc' = [pc EXCEPT ![c] = "write_body"]
    /\ UNCHANGED <<nextRequestId, pending, reqId, chan, result, stdinLog,
                   stdinOpen, stdout, stdoutOpen, readerState, linesWritten,
                   insertCount, removeCount, drained, delivered>>
    /\ UNCHANGED <<forwarded, handles, child>>
    /\ UNCHANGED <<hostVars, sdkVars>>

\* The `?` of plugin.rs:123/127/131: send_request returns the error; its
\* locals, the writer guard among them, are dropped.  The pending entry stays.
WriteFailed(c, what) ==
    /\ result' = [result EXCEPT ![c] = Err(what)]
    /\ writerHolder' = IF writerHolder = c THEN 0 ELSE writerHolder
    /\ pc' = [pc EXCEPT ![c] = "done"]
    /\ UNCHANGED stdinLog

\* plugin.rs:118-123: serialize, write_all(&serialized).
WriteBody(c) ==
    /\ pc[c] = "write_body"
    /\ IF stdinOpen
         THEN /\ stdinLog' = Append(stdinLog, Body(reqId[c]))
              /\ pc' = [pc EXCEPT ![c] = "write_newline"]
              /\ UNCHANGED <<result, writerHolder>>
         ELSE WriteFailed(c, "failed to write plugin request")
    /\ UNCHANGED <<nextRequestId, pending, reqId, chan, stdinOpen, stdout,
                   stdoutOpen, readerState, linesWritten, insertCount,
                   removeCount, drained, delivered>>
    /\ UNCHANGED <<forwarded, handles, child>>
    /\ UNCHANGED <<hostVars, sdkVars>>

\* plugin.rs:124-127: write_all(b"\n").
WriteNewline(c) ==
    /\ pc[c] = "write_newline"
    /\ IF stdinOpen
         THEN /\ stdinLog' = Append(stdinLog, Newline(reqId[c]))
              /\ pc' = [pc EXCEPT ![c] = "flush"]
              /\ UNCHANGED <<result, writerHolder>>
         ELSE WriteFailed(c, "failed to delimit plugin request")
    /\ UNCHANGED <<nextRequestId, pending, reqId, chan, stdinOpen, stdout,
                   stdoutOpen, readerState, linesWritten, insertCount,
                   removeCount, drained, delivered>>
    /\ UNCHANGED <<forwarded, handles, child>>
    /\ UNCHANGED <<hostVars, sdkVars>>

\* plugin.rs:128-131: flush().  The guard `writer` is a local of the function
\* body (plugin.rs:117), so it stays alive after the flush, until
\* send_request returns.
HolderAfterFlush(c) == c

Flush(c) ==
    /\ pc[c] = "flush"
    /\ writerHolder' = HolderAfterFlush(c)
    /\ pc' = [pc EXCEPT ![c] = "await"]
    /\ UNCHANGED <<nextRequestId, pending, reqId, chan, result, stdinLog,
                   stdinOpen, stdout, stdoutOpen, readerState, linesWritten,
                   insertCount, removeCount, drained, delivered>>
    /\ UNCHANGED <<forwarded, handles, child>>
    /\ UNCHANGED <<hostVars, sdkVars>>

\* plugin.rs:133-140: rx.await, then the return, which drops the writer guard.
AwaitReply(c) ==
    /\ pc[c] = "await"
    /\ chan[c].state # "empty"
    /\ result' = [result EXCEPT ![c] =
                    IF chan[c].state = "sent"
                      THEN Ok(chan[c].value)
                      ELSE Err("plugin terminated before responding")]
    /\ writerHolder' = IF writerHolder = c THEN 0 ELSE writerHolder
    /\ pc' = [pc EXCEPT ![c] = "done"]
    /\ UNCHANGED <<nextRequestId, pending, reqId, chan, stdinLog, stdinOpen,
                   stdout, stdoutOpen, readerState, linesWritten,
                   insertCount, removeCount, drained, delivered>>
    /\ UNCHANGED <<forwarded, handles, child>>
    /\ UNCHANGED <<hostVars, sdkVars>>

\* oneshot::Sender::send: the value is stored unless the receiver is gone
\* (its call has returned), in which case send fails and `let _ =` drops it.
Send(ch, c, v) ==
    IF pc[c] = "done" \/ ch[c].state # "empty" THEN ch ELSE [ch EXCEPT ![c] = ChanSent(v)]

\* plugin.rs:160: the key the reader removes for a response carrying `id`.
RemoveKeyOldest(id) == IF DOMAIN pending = {} THEN id ELSE Min(DOMAIN pending)
RemoveKey(id) == id

\* plugin.rs:261-269: map_message_level.
MapMessageLevelAllInfo(level) == "INFO"
MapMessageLevel(level) ==
    CASE level = "error" -> "ERROR"
      [] level = "warning" -> "WARNING"
      [] level = "info" -> "INFO"
      [] level = "log" -> "LOG"

\* plugin.rs:212-223: handle_event, the notification the editor is sent.
Notification(line) ==
    [method |-> IF line.kind = "show_message" THEN "window/showMessage"
                                               ELSE "window/logMessage",
     type |-> MapMessageLevel(line.level)]

\* plugin.rs:173-179: a line that does not decode is logged and the loop
\* goes on.
AfterDecodeError == "running"

\* plugin.rs:157: reader.next_line() gives the oldest line not yet read.
NextLineNewest(out) == out[Len(out)]
NextLine(out) == Head(out)

\* plugin.rs:157-180: one line read from the plugin's stdout: a response
\* (delivered to its waiter, or discarded when its id is not pending), an
\* event (forwarded to the editor), or a line that does not decode.
ReaderLine ==
    /\ readerState = "running"
    /\ stdout # <<>>
    /\ ~NextLineFails(NextLine(stdout))
    /\ LET line == NextLine(stdout)
           arm == DecodeLine(line)
           key == RemoveKey(line.id)
       IN /\ IF arm = "Response" /\ key \in DOMAIN pending
               THEN /\ chan' = Send(chan, pending[key], line.result)
                    /\ pending' = MapRemove(pending, key)
                    /\ removeCount' = [removeCount EXCEPT ![key] = @ + 1]
                    /\ delivered' = Append(delivered, line.id)
               ELSE UNCHANGED <<chan, pending, removeCount, delivered>>
          /\ forwarded' = IF arm = "Event" THEN Append(forwarded, Notification(line))
                                           ELSE forwarded
          /\ readerState' = IF arm = "Err" THEN AfterDecodeError ELSE "running"
    /\ stdout' = Tail(stdout)
    /\ UNCHANGED <<nextRequestId, writerHolder, pc, reqId, result, stdinLog,
                   stdinOpen, stdoutOpen, linesWritten, insertCount, drained>>
    /\ UNCHANGED <<handles, child>>
    /\ UNCHANGED <<hostVars, sdkVars>>

SendAll(ch, S, v) ==
    [c \in Calls |-> IF c \in S /\ pc[c] # "done" /\ ch[c].state = "empty"
                       THEN ChanSent(v) ELSE ch[c]]

\* plugin.rs:233-237: what every drained sender is sent.
DrainResponseRawMessage ==
    [type |-> "command_error", message |-> DisconnectedMessageWrong, origin |-> 0]
DrainResponse == Disconnected

\* plugin.rs:197-210: Drop for PluginProcessInner runs in the step that lets
\* go of the last Arc: the handles, and the clone the stdout task holds
\* until it ends (plugin.rs:153).  It kills the child, which closes the
\* child's ends of the pipes.
LastArcGone(h, r) == h = "dropped" /\ r = "exited"
DropInner(h, r) ==
    /\ child' = IF LastArcGone(h, r) THEN "killed" ELSE child
    /\ stdinOpen' = IF LastArcGone(h, r) THEN FALSE ELSE stdinOpen
    /\ stdoutOpen' = IF LastArcGone(h, r) THEN FALSE ELSE stdoutOpen

\* plugin.rs:157 (next_line gives None), 182-183, and 225-238: the task
\* drains the map and ends, dropping its Arc.
ReaderEof ==
    /\ readerState = "running"
    /\ stdout = <<>>
    /\ ~stdoutOpen
    /\ chan' = SendAll(chan, {pending[k] : k \in DOMAIN pending}, DrainResponse)
    /\ removeCount' = [i \in LineIds |->
                         IF i \in DOMAIN pending THEN removeCount[i] + 1 ELSE removeCount[i]]
    /\ drained' = drained \cup DOMAIN pending
    /\ pending' = <<>>
    /\ readerState' = "exited"
    /\ DropInner(handles, "exited")
    /\ UNCHANGED <<nextRequestId, writerHolder, pc, reqId, result, stdinLog,
                   stdout, linesWritten, insertCount, delivered>>
    /\ UNCHANGED <<forwarded, handles>>
    /\ UNCHANGED <<hostVars, sdkVars>>

\* plugin.rs:157, 182 and 225-238: next_line gives Err for the line, which
\* ends the `while let` as the end of the stream does: the task drains the
\* map and ends, while the plugin may still have its stdout open.
ReaderReadError ==
    /\ readerState = "running"
    /\ stdout # <<>>
    /\ NextLineFails(NextLine(stdout))
    /\ stdout' = Tail(stdout)
    /\ chan' = SendAll(chan, {pending[k] : k \in DOMAIN pending}, DrainResponse)
    /\ removeCount' = [i \in LineIds |->
                         IF i \in DOMAIN pending THEN removeCount[i] + 1 ELSE removeCount[i]]
    /\ drained' = drained \cup DOMAIN pending
    /\ pending' = <<>>
    /\ readerState' = "exited"
    /\ DropInner(handles, "exited")
    /\ UNCHANGED <<nextRequestId, writerHolder, pc, reqId, result, stdinLog,
                   linesWritten, insertCount, delivered>>
    /\ UNCHANGED <<forwarded, handles>>
    /\ UNCHANGED <<hostVars, sdkVars>>

\* ------------------------------------------------------------- the plugin

\* The plugin writes a response line carrying any id.
PluginWrite(i) ==
    /\ stdoutOpen
    /\ linesWritten < MaxLines
    /\ stdout' = Append(stdout, ResponseLine(i))
    /\ linesWritten' = linesWritten + 1
    /\ UNCHANGED <<nextRequestId, pending, writerHolder, pc, reqId, chan,
                   result, stdinLog, stdinOpen, stdoutOpen, readerState,
                   insertCount, removeCount, drained, delivered>>
    /\ UNCHANGED <<forwarded, handles, child>>
    /\ UNCHANGED <<hostVars, sdkVars>>

\* The plugin writes an event, an empty line or a line that is no message.
PluginWriteOther(line) ==
    /\ stdoutOpen
    /\ linesWritten < MaxLines
    /\ stdout' = Append(stdout, line)
    /\ linesWritten' = linesWritten + 1
    /\ UNCHANGED <<nextRequestId, pending, writerHolder, pc, reqId, chan,
                   result, stdinLog, stdinOpen, stdoutOpen, readerState,
                   insertCount, removeCount, drained, delivered>>
    /\ UNCHANGED <<forwarded, handles, child>>
    /\ UNCHANGED <<hostVars, sdkVars>>

\* The plugin closes its stdout (or exits).
PluginCloseStdout ==
    /\ stdoutOpen
    /\ stdoutOpen' = FALSE
    /\ UNCHANGED <<nextRequestId, pending, writerHolder, pc, reqId, chan,
                   result, stdinLog, stdinOpen, stdout, readerState,
                   linesWritten, insertCount, removeCount, drained, delivered>>
    /\ UNCHANGED <<forwarded, handles, child>>
    /\ UNCHANGED <<hostVars, sdkVars>>

\* The plugin closes its stdin (or exits): later writes fail.
PluginCloseStdin ==
    /\ stdinOpen
    /\ stdinOpen' = FALSE
    /\ UNCHANGED <<nextRequestId, pending, writerHolder, pc, reqId, chan,
                   result, stdinLog, stdout, stdoutOpen, readerState,
                   linesWritten, insertCount, removeCount, drained, delivered>>
    /\ UNCHANGED <<forwarded, handles, child>>
    /\ UNCHANGED <<hostVars, sdkVars>>

\* Every PluginProcess handle goes out of scope (server.rs:97, 139, 176): no
\* call is running, since a call borrows a handle, and none can start.  The
\* handles are the last Arc if the stdout task has ended.
DropHandles ==
    /\ handles = "held"
    /\ \A c \in Calls : pc[c] \in {"idle", "done"}
    /\ handles' = "dropped"
    /\ DropInner("dropped", readerState)
    /\ UNCHANGED <<nextRequestId, pending, writerHolder, pc, reqId, chan,
                   result, stdinLog, stdout, readerState, linesWritten,
                   insertCount, removeCount, drained, delivered, forwarded>>
    /\ UNCHANGED <<hostVars, sdkVars>>

NextProc ==
    \/ \E c \in Calls : AllocateId(c)
    \/ \E c \in Calls : InsertPending(c)
    \/ \E c \in Calls : LockWriter(c)
    \/ \E c \in Calls : WriteBody(c)
    \/ \E c \in Calls : WriteNewline(c)
    \/ \E c \in Calls : Flush(c)
    \/ \E c \in Calls : AwaitReply(c)
    \/ ReaderLine
    \/ ReaderEof
    \/ ReaderReadError
    \/ \E i \in LineIds : PluginWrite(i)
    \/ \E line \in OtherLines : PluginWriteOther(line)
    \/ PluginCloseStdout
    \/ PluginCloseStdin
    \/ DropHandles

\* ---------------------------------------------------------------- the host

\* Command ids: the plugin of entry e announces its own command e and the
\* command 0, which both plugins announce.
EntryCommands(e) == {e, 0}
\* The commands the editor asks for: the shared one, the first plugin's own,
\* and one that nobody announces.
ExecutedCommands == {0, 1, 3}

\* What send_request gave the handler that awaited it: Ok(PluginResponse)
\* with the variant's payload (lib.rs:110-129), or Err.
Reply(type, payload) == [type |-> type, payload |-> payload]
Replies == {Reply("initialized", ""),
            Reply("command_result", "null"),
            Reply("command_result", "value"),
            Reply("command_error", "plugin message"),
            Reply("acknowledge", ""),
            Reply("Err", "send_request error")}

\* What an LSP handler returned: Ok or an RpcError, and for initialize the
\* executeCommand capabilities (server.rs:221-235).
Returned(o, names) == [outcome |-> o, commands |-> names, detail |-> ""]
\* What executeCommand returned: Ok with the JSON value, or an RpcError with
\* its message (server.rs:272-280, 284-290).
ExecuteReturned(o, d) == [outcome |-> o, commands |-> {}, detail |-> d]

\* server.rs:71-78 and 190-197.
InitHost ==
    /\ manifest \in {"ok", "missing", "malformed"}
    /\ mgrLock = 0
    /\ initialized = FALSE
    /\ plugins = <<>>
    /\ commands = <<>>
    /\ procs = <<>>
    /\ tkind = [t \in Tasks |-> "none"]
    /\ tpc = [t \in Tasks |-> "idle"]
    /\ tidx = [t \in Tasks |-> 0]
    /\ tproc = [t \in Tasks |-> 0]
    /\ tcmd = [t \in Tasks |-> 0]
    /\ tout = [t \in Tasks |-> Returned("none", {})]
    /\ loads = 0
    /\ spawns = [e \in Entries |-> 0]
    /\ handshakes = [e \in Entries |-> 0]
    /\ failedInits = 0
    /\ successInits = 0
    /\ seen = [t \in Tasks |-> {}]

\* The editor sends a request; tasks are numbered in the order they start.
StartTask(t, kind, cmd) ==
    /\ tpc[t] = "idle"
    /\ \A u \in Tasks : u < t => tpc[u] # "idle"
    /\ tkind' = [tkind EXCEPT ![t] = kind]
    /\ tcmd' = [tcmd EXCEPT ![t] = cmd]
    /\ tpc' = [tpc EXCEPT ![t] = "lock"]
    /\ UNCHANGED <<manifest, mgrLock, initialized, plugins, commands, procs,
                   tidx, tproc, tout, loads, spawns, handshakes,
                   failedInits, successInits, seen>>
    /\ UNCHANGED <<procVars, sdkVars>>

\* server.rs:209 and 246: self.manager.lock().await of initialize and shutdown.
LockManager(t) ==
    /\ tpc[t] = "lock"
    /\ tkind[t] \in {"initialize", "shutdown"}
    /\ mgrLock = 0
    /\ mgrLock' = t
    /\ tidx' = [tidx EXCEPT ![t] = 1]
    /\ tpc' = [tpc EXCEPT ![t] = IF tkind[t] = "initialize" THEN "ensure" ELSE "shutdown_next"]
    /\ UNCHANGED <<manifest, initialized, plugins, commands, procs, tkind,
                   tproc, tcmd, tout, loads, spawns, handshakes,
                   failedInits, successInits, seen>>
    /\ UNCHANGED <<procVars, sdkVars>>

\* The PluginProcess handles of process p: the one in self.plugins, the
\* clones in the bindings of self.commands (server.rs:146-155), and the
\* local `process` or the cloned binding of a handler that awaits it
\* (server.rs:106, 259-266).
HandleHeld(p, pl, cm, tp) ==
    \/ \E j \in 1..Len(pl) : pl[j] = p
    \/ \E k \in DOMAIN cm : cm[k] = p
    \/ \E t \in Tasks : tp[t] = p

\* plugin.rs:197-210: Drop for PluginProcessInner kills the child.  It runs
\* in the step that drops the last handle when the stdout task, which holds
\* a clone of the Arc (plugin.rs:153), has ended before.
Killed(ps, S) ==
    [p \in DOMAIN ps |-> IF p \in S THEN [ps[p] EXCEPT !.alive = FALSE] ELSE ps[p]]

\* server.rs:89: the test that makes ensure_initialized idempotent.
AlreadyInitializedNever == FALSE
AlreadyInitialized == initialized

\* server.rs:89-98: the early return, or the manifest load and the two
\* clears.  A load error leaves through `?` (server.rs:94) and through
\* map_err(internal_error)? (server.rs:213), which drops the guard.  The
\* clears drop the handles of the listed processes: those whose stdout task
\* has ended (`ended`) and of which no handler holds a clone are killed.
EnsureInitialized(t) ==
    /\ tpc[t] = "ensure"
    /\ IF AlreadyInitialized
         THEN /\ tpc' = [tpc EXCEPT ![t] = "command_names"]
              /\ mgrLock' = 0
              /\ seen' = [seen EXCEPT ![t] = DOMAIN commands]
              /\ UNCHANGED <<plugins, commands, procs, loads, failedInits, tout>>
         ELSE /\ loads' = loads + 1
              /\ UNCHANGED seen
              /\ IF manifest = "malformed"
                   THEN /\ tpc' = [tpc EXCEPT ![t] = "done"]
                        /\ tout' = [tout EXCEPT ![t] = Returned("InternalError", {})]
                        /\ mgrLock' = 0
                        /\ failedInits' = failedInits + 1
                        /\ UNCHANGED <<plugins, commands, procs>>
                   ELSE /\ plugins' = <<>>
                        /\ commands' = <<>>
                        /\ \E ended \in SUBSET {p \in DOMAIN procs :
                                                  /\ procs[p].alive
                                                  /\ HandleHeld(p, plugins, commands, tproc)
                                                  /\ ~HandleHeld(p, <<>>, <<>>, tproc)} :
                              procs' = Killed(procs, ended)
                        /\ tpc' = [tpc EXCEPT ![t] = "spawn"]
                        /\ UNCHANGED <<mgrLock, failedInits, tout>>
    /\ UNCHANGED <<manifest, initialized, tkind, tidx, tproc, tcmd,
                   spawns, handshakes, successInits>>
    /\ UNCHANGED <<procVars, sdkVars>>

\* PluginManifest::load (manifest.rs:39-53): a missing file is the empty
\* manifest.
ManifestPlugins == IF manifest = "ok" THEN Entries ELSE {}

\* server.rs:127-131: the payload register_plugin sends to the process it
\* has spawned.
HandshakeRequestExecute == "execute"
HandshakeRequest == "initialize"

\* send_request is called on process p with a payload of `kind`: the
\* requests of a process in the order of their fetch_add (plugin.rs:108).
Requested(ps, p, kind) == [ps EXCEPT ![p].requests = Append(@, kind)]

\* server.rs:104-115 and 127-131: one turn of `for entry in manifest.plugins`
\* up to the await of register_plugin: the spawn and, if it succeeds, the
\* initialize request.  A spawn error is logged and the loop goes on.
SpawnPlugin(t, ok) ==
    /\ tpc[t] = "spawn"
    /\ tidx[t] \in ManifestPlugins
    /\ spawns' = [spawns EXCEPT ![tidx[t]] = @ + 1]
    /\ IF ok
         THEN /\ procs' = Append(procs, [entry |-> tidx[t], alive |-> TRUE,
                                          by |-> t, handshake |-> "pending",
                                          requests |-> <<HandshakeRequest>>])
              /\ tproc' = [tproc EXCEPT ![t] = Len(procs) + 1]
              /\ handshakes' = [handshakes EXCEPT ![tidx[t]] = @ + 1]
              /\ tpc' = [tpc EXCEPT ![t] = "handshake_await"]
              /\ UNCHANGED tidx
         ELSE /\ tidx' = [tidx EXCEPT ![t] = @ + 1]
              /\ UNCHANGED <<procs, tproc, tpc, handshakes>>
    /\ UNCHANGED <<manifest, mgrLock, initialized, plugins, commands, tkind,
                   tcmd, tout, loads, failedInits, successInits, seen>>
    /\ UNCHANGED <<procVars, sdkVars>>

\* HashMap::insert for every command of the response (server.rs:142-156):
\* an id that is already a key gets the new binding.
RegisterCommandsFirstWins(m, ids, p) ==
    [k \in (DOMAIN m) \cup ids |-> IF k \in DOMAIN m THEN m[k] ELSE p]
RegisterCommands(m, ids, p) ==
    [k \in (DOMAIN m) \cup ids |-> IF k \in ids THEN p ELSE m[k]]

\* server.rs:158: self.plugins.push((entry.name, process)).
PluginsNotPushed(ps, p) == ps
PluginsPush(ps, p) == Append(ps, p)

\* How the handshake of a process ended (server.rs:127-140).
HandshakeEnd(reply) ==
    IF reply.type = "Err" THEN "error"
    ELSE IF reply.type = "initialized" THEN "initialized"
    ELSE "anomaly"

\* server.rs:127-159: send_request returns and register_plugin goes on.
\* An Err leaves register_plugin, ensure_initialized and initialize through
\* `?` (server.rs:132, 109, 213).  Any other response than Initialized
\* returns Ok(()) before the push (server.rs:134-140): `process` is dropped,
\* the manager keeps no handle of it.  In both cases `process` is the last
\* handle, and the child is killed in this step if its stdout task has
\* ended (`ended`).
HandshakeReply(t, reply, ended) ==
    /\ tpc[t] = "handshake_await"
    /\ IF reply.type = "Err"
         THEN /\ tpc' = [tpc EXCEPT ![t] = "done"]
              /\ tout' = [tout EXCEPT ![t] = Returned("InternalError", {})]
              /\ mgrLock' = 0
              /\ failedInits' = failedInits + 1
              /\ UNCHANGED <<plugins, commands, tidx>>
         ELSE /\ IF reply.type = "initialized"
                   THEN /\ commands' = RegisterCommands(commands,
                                           EntryCommands(procs[tproc[t]].entry), tproc[t])
                        /\ plugins' = PluginsPush(plugins, tproc[t])
                   ELSE UNCHANGED <<plugins, commands>>
              /\ tidx' = [tidx EXCEPT ![t] = @ + 1]
              /\ tpc' = [tpc EXCEPT ![t] = "spawn"]
              /\ UNCHANGED <<mgrLock, failedInits, tout>>
    /\ procs' = [procs EXCEPT ![tproc[t]] =
                     [@ EXCEPT !.handshake = HandshakeEnd(reply),
                               !.alive = IF reply.type # "initialized" /\ ended
                                           THEN FALSE ELSE @]]
    /\ tproc' = [tproc EXCEPT ![t] = 0]
    /\ UNCHANGED <<manifest, initialized, tkind, tcmd, loads, spawns,
                   handshakes, successInits, seen>>
    /\ UNCHANGED <<procVars, sdkVars>>

\* server.rs:117-118 and 214: the loop is over, initialized is set, the
\* guard of server.rs:209 is dropped.
EnsureDone(t) ==
    /\ tpc[t] = "spawn"
    /\ tidx[t] \notin ManifestPlugins
    /\ initialized' = TRUE
    /\ successInits' = successInits + 1
    /\ seen' = [seen EXCEPT ![t] = DOMAIN commands]
    /\ mgrLock' = 0
    /\ tpc' = [tpc EXCEPT ![t] = "command_names"]
    /\ UNCHANGED <<manifest, plugins, commands, procs, tkind, tidx, tproc,
                   tcmd, tout, loads, spawns, handshakes, failedInits>>
    /\ UNCHANGED <<procVars, sdkVars>>

\* server.rs:162-164: command_names().
CommandNamesNone(m) == {}
CommandNamesOf(m) == DOMAIN m

\* server.rs:216-236: the second lock, command_names(), the result.
CommandNames(t) ==
    /\ tpc[t] = "command_names"
    /\ mgrLock = 0
    /\ tout' = [tout EXCEPT ![t] = Returned("Ok", CommandNamesOf(commands))]
    /\ tpc' = [tpc EXCEPT ![t] = "done"]
    /\ seen' = [seen EXCEPT ![t] = {}]
    /\ UNCHANGED <<manifest, mgrLock, initialized, plugins, commands, procs,
                   tkind, tidx, tproc, tcmd, loads, spawns, handshakes,
                   failedInits, successInits>>
    /\ UNCHANGED <<procVars, sdkVars>>

\* server.rs:263 and 292-298: method_not_found.
NotFoundOutcomeInternal == "InternalError"
NotFoundOutcome == "MethodNotFound"

\* server.rs:259-263: lookup_command under the lock, which is dropped at
\* the end of the block; the handler keeps the binding it has cloned.
LookupCommand(t) ==
    /\ tpc[t] = "lock"
    /\ tkind[t] = "execute"
    /\ mgrLock = 0
    /\ IF tcmd[t] \in DOMAIN commands
         THEN /\ tproc' = [tproc EXCEPT ![t] = commands[tcmd[t]]]
              /\ tpc' = [tpc EXCEPT ![t] = "execute_send"]
              /\ UNCHANGED tout
         ELSE /\ tout' = [tout EXCEPT ![t] = Returned(NotFoundOutcome, {})]
              /\ tpc' = [tpc EXCEPT ![t] = "done"]
              /\ UNCHANGED tproc
    /\ UNCHANGED <<manifest, mgrLock, initialized, plugins, commands, procs,
                   tkind, tidx, tcmd, loads, spawns, handshakes,
                   failedInits, successInits, seen>>
    /\ UNCHANGED <<procVars, sdkVars>>

\* server.rs:265-270 and plugin.rs:108: send_request on the binding, after
\* the lock is dropped: what other handlers do between the lookup and the
\* fetch_add comes before this request.
ExecuteSend(t) ==
    /\ tpc[t] = "execute_send"
    /\ procs' = Requested(procs, tproc[t], "execute")
    /\ tpc' = [tpc EXCEPT ![t] = "execute_await"]
    /\ UNCHANGED <<manifest, mgrLock, initialized, plugins, commands,
                   tkind, tidx, tproc, tcmd, tout, loads, spawns, handshakes,
                   failedInits, successInits, seen>>
    /\ UNCHANGED <<procVars, sdkVars>>

UnexpectedResponse == "plugin returned unexpected response for executeCommand"

\* server.rs:272-280: the outcome of executeCommand for what send_request
\* gave.
ExecuteOutcomeResultForError(reply) ==
    IF reply.type = "Err" THEN ExecuteReturned("InternalError", reply.payload)
    ELSE IF reply.type \in {"command_result", "command_error"}
      THEN ExecuteReturned("Ok", reply.payload)
    ELSE ExecuteReturned("InternalError", UnexpectedResponse)
ExecuteOutcome(reply) ==
    IF reply.type = "Err" THEN ExecuteReturned("InternalError", reply.payload)
    ELSE IF reply.type = "command_result" THEN ExecuteReturned("Ok", reply.payload)
    ELSE IF reply.type = "command_error" THEN ExecuteReturned("InternalError", reply.payload)
    ELSE ExecuteReturned("InternalError", UnexpectedResponse)

\* server.rs:265-281: send_request returns to execute_command, and the
\* binding cloned by lookup_command (server.rs:166-168) is dropped: if the
\* manager has cleared its lists meanwhile this is the last handle, and the
\* child is killed if its stdout task has ended (`ended`).
ExecuteReply(t, reply, ended) ==
    /\ tpc[t] = "execute_await"
    /\ tout' = [tout EXCEPT ![t] = ExecuteOutcome(reply)]
    /\ tproc' = [tproc EXCEPT ![t] = 0]
    /\ tpc' = [tpc EXCEPT ![t] = "done"]
    /\ procs' = IF ended /\ ~HandleHeld(tproc[t], plugins, commands, tproc')
                  THEN Killed(procs, {tproc[t]}) ELSE procs
    /\ UNCHANGED <<manifest, mgrLock, initialized, plugins, commands,
                   tkind, tidx, tcmd, loads, spawns, handshakes,
                   failedInits, successInits, seen>>
    /\ UNCHANGED <<procVars, sdkVars>>

\* server.rs:171-172 and plugin.rs:144: shutdown_all sends shutdown to the
\* next plugin of self.plugins.
ShutdownSend(t) ==
    /\ tpc[t] = "shutdown_next"
    /\ tidx[t] <= Len(plugins)
    /\ tproc' = [tproc EXCEPT ![t] = plugins[tidx[t]]]
    /\ procs' = Requested(procs, plugins[tidx[t]], "shutdown")
    /\ tpc' = [tpc EXCEPT ![t] = "shutdown_await"]
    /\ UNCHANGED <<manifest, mgrLock, initialized, plugins, commands,
                   tkind, tidx, tcmd, tout, loads, spawns, handshakes,
                   failedInits, successInits, seen>>
    /\ UNCHANGED <<procVars, sdkVars>>

\* plugin.rs:144: whatever send_request gives is ignored.
ShutdownReply(t, reply) ==
    /\ tpc[t] = "shutdown_await"
    /\ reply \in Replies
    /\ tpc' = [tpc EXCEPT ![t] = "shutdown_wait"]
    /\ UNCHANGED <<manifest, mgrLock, initialized, plugins, commands, procs,
                   tkind, tidx, tproc, tcmd, tout, loads, spawns, handshakes,
                   failedInits, successInits, seen>>
    /\ UNCHANGED <<procVars, sdkVars>>

\* plugin.rs:145-149: child.wait().await returns when the child has exited.
ShutdownWait(t) ==
    /\ tpc[t] = "shutdown_wait"
    /\ procs' = [procs EXCEPT ![tproc[t]].alive = FALSE]
    /\ tproc' = [tproc EXCEPT ![t] = 0]
    /\ tidx' = [tidx EXCEPT ![t] = @ + 1]
    /\ tpc' = [tpc EXCEPT ![t] = "shutdown_next"]
    /\ UNCHANGED <<manifest, mgrLock, initialized, plugins, commands, tkind,
                   tcmd, tout, loads, spawns, handshakes, failedInits,
                   successInits, seen>>
    /\ UNCHANGED <<procVars, sdkVars>>

\* server.rs:178: self.initialized = false.
FlagAfterShutdownKept == initialized
FlagAfterShutdown == FALSE

\* server.rs:176-178 and 248: the clears, the reset, and the guard dropped.
ShutdownDone(t) ==
    /\ tpc[t] = "shutdown_next"
    /\ tidx[t] > Len(plugins)
    /\ plugins' = <<>>
    /\ commands' = <<>>
    /\ initialized' = FlagAfterShutdown
    /\ mgrLock' = 0
    /\ tout' = [tout EXCEPT ![t] = Returned("Ok", {})]
    /\ tpc' = [tpc EXCEPT ![t] = "done"]
    /\ loads' = 0
    /\ spawns' = [e \in Entries |-> 0]
    /\ handshakes' = [e \in Entries |-> 0]
    /\ failedInits' = 0
    /\ successInits' = 0
    /\ UNCHANGED <<manifest, procs, tkind, tidx, tproc, tcmd, seen>>
    /\ UNCHANGED <<procVars, sdkVars>>

\* plugin.rs:157, 182-183 and 197-210: the stdout of a running child of
\* which no handle is left ends (the child closes it or exits): the stdout
\* task ends and drops the last Arc, and Drop kills the child.
StdoutTaskEnds(p) ==
    /\ procs[p].alive
    /\ ~HandleHeld(p, plugins, commands, tproc)
    /\ procs' = Killed(procs, {p})
    /\ UNCHANGED <<manifest, mgrLock, initialized, plugins, commands,
                   tkind, tpc, tidx, tproc, tcmd, tout, loads, spawns,
                   handshakes, failedInits, successInits, seen>>
    /\ UNCHANGED <<procVars, sdkVars>>

NextHost ==
    \/ \E t \in Tasks : StartTask(t, "initialize", 0)
    \/ \E t \in Tasks : StartTask(t, "shutdown", 0)
    \/ \E t \in Tasks, c \in ExecutedCommands : StartTask(t, "execute", c)
    \/ \E t \in Tasks : LockManager(t)
    \/ \E t \in Tasks : EnsureInitialized(t)
    \/ \E t \in Tasks, ok \in BOOLEAN : SpawnPlugin(t, ok)
    \/ \E t \in Tasks, r \in Replies, ended \in BOOLEAN : HandshakeReply(t, r, ended)
    \/ \E t \in Tasks : EnsureDone(t)
    \/ \E t \in Tasks : CommandNames(t)
    \/ \E t \in Tasks : LookupCommand(t)
    \/ \E t \in Tasks : ExecuteSend(t)
    \/ \E t \in Tasks, r \in Replies, ended \in BOOLEAN : ExecuteReply(t, r, ended)
    \/ \E t \in Tasks : ShutdownSend(t)
    \/ \E t \in Tasks, r \in Replies : ShutdownReply(t, r)
    \/ \E t \in Tasks : ShutdownWait(t)
    \/ \E t \in Tasks : ShutdownDone(t)
    \/ \E p \in DOMAIN procs : StdoutTaskEnds(p)

\* ------------------------------------------------- the protocol on the wire

\* A JSON value (serde_json's grammar) is a tuple that starts with its kind:
\* null, a string, an integer, an array of values, or an object, which is a
\* record of values.
JNull == <<"null">>
JString(s) == <<"string", s>>
JNumber(n) == <<"number", n>>
JArray(items) == <<"array", items>>
JObject(members) == <<"object", members>>
Kind(v) == v[1]

\* The serde_json::Value values the model draws.
Values == {JNull, JString("ok")}

\* Option<T>: None is the empty tuple and Some(x) the tuple of x.
None == <<>>
Some(x) == <<x>>

\* MessageLevel and its snake_case name on the wire.
MessageLevels == {"Error", "Warning", "Info", "Log"}
LevelName(level) ==
    CASE level = "Error" -> "error"
      [] level = "Warning" -> "warning"
      [] level = "Info" -> "info"
      [] level = "Log" -> "log"
LevelNames == {LevelName(level) : level \in MessageLevels}
LevelOf(name) == CHOOSE level \in MessageLevels : LevelName(level) = name

\* PluginCommand { id, title, description }.
NewCommand(id, title, description) ==
    [id |-> id, title |-> title, description |-> description]

\* The variants of PluginResponse; a field a variant does not have keeps
\* its empty value.
Initialized(cmds) ==
    [variant |-> "Initialized", commands |-> cmds, result |-> None, message |-> ""]
CommandResult(r) ==
    [variant |-> "CommandResult", commands |-> <<>>, result |-> r, message |-> ""]
CommandError(m) ==
    [variant |-> "CommandError", commands |-> <<>>, result |-> None, message |-> m]
Acknowledge ==
    [variant |-> "Acknowledge", commands |-> <<>>, result |-> None, message |-> ""]

\* The variants of PluginEvent.
ShowMessage(level, m) == [variant |-> "ShowMessage", level |-> level, message |-> m]
Log(level, m) == [variant |-> "Log", level |-> level, message |-> m]

\* The variants of PluginMessage.
Response(id, r) ==
    [variant |-> "Response", id |-> id, result |-> r, event |-> Log("Log", "")]
Event(e) ==
    [variant |-> "Event", id |-> 0, result |-> Acknowledge, event |-> e]

\* The variants of HostRequestPayload, and HostRequest { id, payload }.
Initialize(root) ==
    [variant |-> "Initialize", workspace_root |-> root, command |-> "",
     arguments |-> <<>>]
Execute(command, arguments) ==
    [variant |-> "Execute", workspace_root |-> None, command |-> command,
     arguments |-> arguments]
Shutdown ==
    [variant |-> "Shutdown", workspace_root |-> None, command |-> "",
     arguments |-> <<>>]
HostRequest(id, payload) == [id |-> id, payload |-> payload]

\* Err of serde_json for each of the types: the tag is missing or names no
\* variant, or a field is missing or does not decode.  The description of
\* CommandErr is no Option.
CommandErr == NewCommand("", "", <<"Err", "Err">>)
ResponseErr ==
    [variant |-> "Err", commands |-> <<>>, result |-> None, message |-> ""]
EventErr == [variant |-> "Err", level |-> "", message |-> ""]
MessageErr ==
    [variant |-> "Err", id |-> 0, result |-> Acknowledge, event |-> Log("Log", "")]
PayloadErr ==
    [variant |-> "Err", workspace_root |-> None, command |-> "",
     arguments |-> <<>>]
RequestErr == HostRequest(0, PayloadErr)

\* Deserialize of String, of u64 and of Option<String> (null is None).
IsString(v) == Kind(v) = "string"
IsU64(v) == IF Kind(v) = "number" THEN v[2] >= 0 ELSE FALSE
IsOptionString(v) == Kind(v) \in {"null", "string"}
OptionString(v) == IF Kind(v) = "null" THEN None ELSE Some(v[2])

\* The members m of an object hold one named n.
Given(m, n) == IF DOMAIN m = {} THEN FALSE ELSE n \in DOMAIN m

\* What the Visitor serde derives for a struct or a struct variant with the
\* fields `names` is given: the members of an object by name (visit_map;
\* other members are ignored), or the items of an array by position
\* (visit_seq; more items than fields is an error).  Any other value is an
\* error.
Fields(v, names) ==
    CASE Kind(v) = "object" ->
            [form |-> "map", ok |-> TRUE, at |-> v[2]]
      [] Kind(v) = "array" ->
            [form |-> "seq", ok |-> Len(v[2]) <= Len(names),
             at |-> [n \in {names[i] : i \in DOMAIN names \cap DOMAIN v[2]} |->
                        v[2][CHOOSE i \in DOMAIN names : names[i] = n]]]
      [] OTHER ->
            [form |-> "none", ok |-> FALSE, at |-> <<>>]

\* An internally tagged enum (#[serde(tag = "type")]) takes its tag from
\* the member "type" of an object or from the first item of an array, and
\* its variant from the rest.  JNull stands for no tag.
TagValue(v) ==
    CASE Kind(v) = "object" -> IF Given(v[2], "type") THEN v[2].type ELSE JNull
      [] Kind(v) = "array" -> IF v[2] # <<>> THEN v[2][1] ELSE JNull
      [] OTHER -> JNull
Content(v) ==
    IF Kind(v) = "object"
    THEN IF Given(v[2], "type")
         THEN JObject([k \in DOMAIN v[2] \ {"type"} |-> v[2][k]]) ELSE v
    ELSE JArray(Tail(v[2]))

\* The variant a tag names, "" when it names none: a string names the
\* variant; an integer is taken as the variant's index only when the enum is
\* read from the content an enclosing tagged enum has buffered.
Variant(tag, names, buffered) ==
    CASE Kind(tag) = "string" ->
            IF \E i \in DOMAIN names : names[i] = tag[2] THEN tag[2] ELSE ""
      [] Kind(tag) = "number" ->
            IF buffered
            THEN IF tag[2] \in 0..(Len(names) - 1) THEN names[tag[2] + 1] ELSE ""
            ELSE ""
      [] OTHER -> ""

\* A unit variant takes an object with any members, or an array with no
\* item after the tag.
IsUnit(content) == IF Kind(content) = "array" THEN content[2] = <<>> ELSE TRUE

\* Serialize of PluginCommand: a description of None is left out.
EncodeCommand(c) ==
    IF c.description = None
    THEN JObject([id |-> JString(c.id), title |-> JString(c.title)])
    ELSE JObject([id |-> JString(c.id), title |-> JString(c.title),
                  description |-> JString(c.description[1])])

\* Deserialize of PluginCommand: id and title are strings; a description
\* that is absent (#[serde(default)]) or null is None.
DecodeCommand(v) ==
    LET f == Fields(v, <<"id", "title", "description">>)
    IN  IF ~f.ok THEN CommandErr
        ELSE IF ~Given(f.at, "id") THEN CommandErr
        ELSE IF ~Given(f.at, "title") THEN CommandErr
        ELSE IF ~IsString(f.at.id) THEN CommandErr
        ELSE IF ~IsString(f.at.title) THEN CommandErr
        ELSE IF ~Given(f.at, "description")
          THEN NewCommand(f.at.id[2], f.at.title[2], None)
        ELSE IF ~IsOptionString(f.at.description) THEN CommandErr
        ELSE NewCommand(f.at.id[2], f.at.title[2], OptionString(f.at.description))

\* Serialize of PluginResponse, tagged by "type": None is written as null.
EncodeResponse(r) ==
    CASE r.variant = "Initialized" ->
            JObject([type |-> JString("initialized"),
                     commands |-> JArray([i \in 1..Len(r.commands) |->
                                             EncodeCommand(r.commands[i])])])
      [] r.variant = "CommandResult" ->
            JObject([type |-> JString("command_result"),
                     result |-> IF r.result = None THEN JNull ELSE r.result[1]])
      [] r.variant = "CommandError" ->
            JObject([type |-> JString("command_error"), message |-> JString(r.message)])
      [] r.variant = "Acknowledge" ->
            JObject([type |-> JString("acknowledge")])

\* Deserialize of PluginResponse, read from the text (`buffered` FALSE) or
\* from the content PluginMessage has buffered.  The commands are an array
\* whose items all decode.  The Option of `result` is
\* None for an absent field (#[serde(default)]) and for null, and Some of
\* the value for anything else.
DecodeResponse(v, buffered) ==
    LET variant == Variant(TagValue(v), <<"initialized", "command_result",
                                         "command_error", "acknowledge">>, buffered)
    IN  CASE variant = "initialized" ->
                LET f == Fields(Content(v), <<"commands">>)
                IN  IF ~f.ok THEN ResponseErr
                    ELSE IF ~Given(f.at, "commands") THEN ResponseErr
                    ELSE IF Kind(f.at.commands) # "array" THEN ResponseErr
                    ELSE LET cmds == [i \in DOMAIN f.at.commands[2] |->
                                         DecodeCommand(f.at.commands[2][i])]
                         IN  IF \E i \in DOMAIN cmds : cmds[i] = CommandErr
                             THEN ResponseErr ELSE Initialized(cmds)
          [] variant = "command_result" ->
                LET f == Fields(Content(v), <<"result">>)
                IN  IF ~f.ok THEN ResponseErr
                    ELSE IF ~Given(f.at, "result") THEN CommandResult(None)
                    ELSE IF Kind(f.at.result) = "null" THEN CommandResult(None)
                    ELSE CommandResult(Some(f.at.result))
          [] variant = "command_error" ->
                LET f == Fields(Content(v), <<"message">>)
                IN  IF ~f.ok THEN ResponseErr
                    ELSE IF ~Given(f.at, "message") THEN ResponseErr
                    ELSE IF ~IsString(f.at.message) THEN ResponseErr
                    ELSE CommandError(f.at.message[2])
          [] variant = "acknowledge" ->
                IF IsUnit(Content(v)) THEN Acknowledge ELSE ResponseErr
          [] OTHER -> ResponseErr

\* Deserialize of MessageLevel, always from buffered content: the name of
\* the level, or an object whose one member is named by the level and holds
\* the unit (null, or an object without members); "" is the error.
DecodeLevel(v) ==
    CASE Kind(v) = "string" ->
            IF v[2] \in LevelNames THEN LevelOf(v[2]) ELSE ""
      [] Kind(v) = "object" ->
            IF Cardinality(DOMAIN v[2]) # 1 THEN ""
            ELSE LET name == CHOOSE n \in DOMAIN v[2] : TRUE
                     unit == v[2][name]
                 IN  IF name \notin LevelNames THEN ""
                     ELSE IF Kind(unit) = "null" THEN LevelOf(name)
                     ELSE IF Kind(unit) = "object"
                       THEN IF DOMAIN unit[2] = {} THEN LevelOf(name) ELSE ""
                     ELSE ""
      [] OTHER -> ""

\* Serialize and Deserialize of PluginEvent.
EncodeEvent(e) ==
    JObject([type |-> JString(IF e.variant = "ShowMessage" THEN "show_message" ELSE "log"),
             level |-> JString(LevelName(e.level)), message |-> JString(e.message)])
DecodeEvent(v, buffered) ==
    LET variant == Variant(TagValue(v), <<"show_message", "log">>, buffered)
        f == Fields(Content(v), <<"level", "message">>)
    IN  IF variant = "" THEN EventErr
        ELSE IF ~f.ok THEN EventErr
        ELSE IF ~Given(f.at, "level") THEN EventErr
        ELSE IF ~Given(f.at, "message") THEN EventErr
        ELSE IF DecodeLevel(f.at.level) = "" THEN EventErr
        ELSE IF ~IsString(f.at.message) THEN EventErr
        ELSE IF variant = "show_message"
          THEN ShowMessage(DecodeLevel(f.at.level), f.at.message[2])
        ELSE Log(DecodeLevel(f.at.level), f.at.message[2])

\* Serialize and Deserialize of PluginMessage; the id is a u64.
EncodeMessage(m) ==
    IF m.variant = "Response"
    THEN JObject([type |-> JString("response"), id |-> JNumber(m.id),
                  result |-> EncodeResponse(m.result)])
    ELSE JObject([type |-> JString("event"), event |-> EncodeEvent(m.event)])
DecodeMessage(v) ==
    LET variant == Variant(TagValue(v), <<"response", "event">>, FALSE)
    IN  CASE variant = "response" ->
                LET f == Fields(Content(v), <<"id", "result">>)
                IN  IF ~f.ok THEN MessageErr
                    ELSE IF ~Given(f.at, "id") THEN MessageErr
                    ELSE IF ~Given(f.at, "result") THEN MessageErr
                    ELSE IF ~IsU64(f.at.id) THEN MessageErr
                    ELSE IF DecodeResponse(f.at.result, TRUE) = ResponseErr
                      THEN MessageErr
                    ELSE Response(f.at.id[2], DecodeResponse(f.at.result, TRUE))
          [] variant = "event" ->
                LET f == Fields(Content(v), <<"event">>)
                IN  IF ~f.ok THEN MessageErr
                    ELSE IF ~Given(f.at, "event") THEN MessageErr
                    ELSE IF DecodeEvent(f.at.event, TRUE) = EventErr THEN MessageErr
                    ELSE Event(DecodeEvent(f.at.event, TRUE))
          [] OTHER -> MessageErr

\* Serialize of HostRequestPayload and of HostRequest.
EncodePayload(p) ==
    CASE p.variant = "Initialize" ->
            JObject([type |-> JString("initialize"),
                     workspace_root |-> IF p.workspace_root = None THEN JNull
                                        ELSE JString(p.workspace_root[1])])
      [] p.variant = "Execute" ->
            JObject([type |-> JString("execute"), command |-> JString(p.command),
                     arguments |-> JArray(p.arguments)])
      [] p.variant = "Shutdown" ->
            JObject([type |-> JString("shutdown")])
EncodeRequest(q) ==
    JObject([id |-> JNumber(q.id), payload |-> EncodePayload(q.payload)])

\* Deserialize of HostRequestPayload.  An absent workspace_root is None in
\* an object and an error in an array; absent `arguments` is the empty list
\* (#[serde(default)]), and `arguments` that are there are an array.
DecodePayload(v) ==
    LET variant == Variant(TagValue(v), <<"initialize", "execute", "shutdown">>, FALSE)
    IN  CASE variant = "initialize" ->
                LET f == Fields(Content(v), <<"workspace_root">>)
                IN  IF ~f.ok THEN PayloadErr
                    ELSE IF ~Given(f.at, "workspace_root")
                      THEN IF f.form = "map" THEN Initialize(None) ELSE PayloadErr
                    ELSE IF ~IsOptionString(f.at.workspace_root) THEN PayloadErr
                    ELSE Initialize(OptionString(f.at.workspace_root))
          [] variant = "execute" ->
                LET f == Fields(Content(v), <<"command", "arguments">>)
                IN  IF ~f.ok THEN PayloadErr
                    ELSE IF ~Given(f.at, "command") THEN PayloadErr
                    ELSE IF ~IsString(f.at.command) THEN PayloadErr
                    ELSE IF ~Given(f.at, "arguments") THEN Execute(f.at.command[2], <<>>)
                    ELSE IF Kind(f.at.arguments) # "array" THEN PayloadErr
                    ELSE Execute(f.at.command[2], f.at.arguments[2])
          [] variant = "shutdown" ->
                IF IsUnit(Content(v)) THEN Shutdown ELSE PayloadErr
          [] OTHER -> PayloadErr

\* Deserialize of HostRequest: the id is a u64, the payload decodes.
DecodeRequest(v) ==
    LET f == Fields(v, <<"id", "payload">>)
    IN  IF ~f.ok THEN RequestErr
        ELSE IF ~Given(f.at, "id") THEN RequestErr
        ELSE IF ~Given(f.at, "payload") THEN RequestErr
        ELSE IF ~IsU64(f.at.id) THEN RequestErr
        ELSE IF DecodePayload(f.at.payload) = PayloadErr THEN RequestErr
        ELSE HostRequest(f.at.id[2], DecodePayload(f.at.payload))


\* ------------------------------------------------- the SDK's runtime::run

\* The payloads the host puts in its requests.
Payloads == {Initialize(None), Initialize(Some("/ws")),
             Execute("a", <<>>), Execute("a", <<JNull>>), Shutdown}

\* The ids of the commands the plugin's initialize registers.
CommandIds == {"a", "b"}
CommandFor(id) ==
    NewCommand(id, "title", IF id = "a" THEN Some("about a") ELSE None)

\* What the plugin's execute returns: Ok(None), Ok(Some(value)) or Err.
ExecOk(r) == [ok |-> TRUE, result |-> r, error |-> ""]
ExecErr(e) == [ok |-> FALSE, result |-> None, error |-> e]
ExecOutcomes == {ExecOk(None), ExecErr("boom")} \cup {ExecOk(Some(v)) : v \in Values}

\* The event the plugin emits through its context: a show_message from its
\* initialize, a log from its execute.
Emitted(phase) ==
    IF phase = "initializing" THEN ShowMessage("Warning", "hello")
    ELSE Log("Error", "oops")

\* A line on the plugin's stdin: the text of a request (its JSON in `json`,
\* the request it was written from in `origin`), or a text that is no JSON.
RequestLine(q) == [text |-> "json", json |-> EncodeRequest(q), origin |-> q]
TextLine(text) ==
    [text |-> text, json |-> EncodeRequest(HostRequest(0, Shutdown)),
     origin |-> HostRequest(0, Shutdown)]
NoiseTexts == {"", " \t", "{"}

\* A line that is JSON and no HostRequest: the payload's tag names no
\* variant, or the id is no u64.
JsonLine(v) == [text |-> "json", json |-> v, origin |-> RequestErr]
BadRequests ==
    {JObject([id |-> JNumber(1), payload |-> JObject([type |-> JString("reload")])]),
     JObject([id |-> JNumber(-1), payload |-> JObject([type |-> JString("shutdown")])])}

\* A line on the plugin's stdout, with the message it was written from.
MessageLine(m) == [json |-> EncodeMessage(m), origin |-> m]

\* str::trim on the texts above.
Trim(text) == IF text \in {"", " \t"} THEN "" ELSE text

\* lib.rs:331
IsBlankOnlyEmpty(line) == line.text = ""
IsBlank(line) == Trim(line.text) = ""

\* serde_json::from_str::<HostRequest>
ParseOk(line) == line.text = "json" /\ DecodeRequest(line.json) # RequestErr
Parse(line) == DecodeRequest(line.json)

InitSdk ==
    /\ sdkIn = <<>>
    /\ sdkInOpen = TRUE
    /\ sdkOut = <<>>
    /\ sdkPc = "reading"
    /\ sdkInitialized = FALSE
    /\ registry = [commands |-> <<>>, seen |-> {}]
    /\ sdkReq = HostRequest(0, Shutdown)
    /\ fedCount = 0
    /\ registerLog = <<>>
    /\ userInitCalls = 0
    /\ userExecCalls = 0

\* The host writes a request on the plugin's stdin.
FeedRequest(p) ==
    /\ sdkInOpen
    /\ fedCount < MaxRequests
    /\ sdkIn' = Append(sdkIn, RequestLine(HostRequest(fedCount + 1, p)))
    /\ fedCount' = fedCount + 1
    /\ UNCHANGED <<sdkInOpen, sdkOut, sdkPc, sdkInitialized, registry, sdkReq,
                   registerLog, userInitCalls, userExecCalls>>
    /\ UNCHANGED <<procVars, hostVars>>

\* Something writes a line that is no request on the plugin's stdin.
FeedText(text) ==
    /\ sdkInOpen
    /\ fedCount < MaxRequests
    /\ sdkIn' = Append(sdkIn, TextLine(text))
    /\ fedCount' = fedCount + 1
    /\ UNCHANGED <<sdkInOpen, sdkOut, sdkPc, sdkInitialized, registry, sdkReq,
                   registerLog, userInitCalls, userExecCalls>>
    /\ UNCHANGED <<procVars, hostVars>>

\* Something writes a line of JSON that is no request on the plugin's stdin.
FeedJson(v) ==
    /\ sdkInOpen
    /\ fedCount < MaxRequests
    /\ sdkIn' = Append(sdkIn, JsonLine(v))
    /\ fedCount' = fedCount + 1
    /\ UNCHANGED <<sdkInOpen, sdkOut, sdkPc, sdkInitialized, registry, sdkReq,
                   registerLog, userInitCalls, userExecCalls>>
    /\ UNCHANGED <<procVars, hostVars>>

\* The plugin's stdin is closed.
FeedClose ==
    /\ sdkInOpen
    /\ sdkInOpen' = FALSE
    /\ UNCHANGED <<sdkIn, sdkOut, sdkPc, sdkInitialized, registry, sdkReq,
                   fedCount, registerLog, userInitCalls, userExecCalls>>
    /\ UNCHANGED <<procVars, hostVars>>

\* HostConnection::send_message (lib.rs:223-236): the message, the newline
\* and the flush.  `sent` is whether the writes succeeded; they fail when
\* the read end of the plugin's stdout is closed, and then no line is
\* written and the caller gets the Err.
SendMessage(m, sent) ==
    sdkOut' = IF sent THEN Append(sdkOut, MessageLine(m)) ELSE sdkOut

\* lib.rs:349, 364, 375, 386, 395, 404: every send_message of run is
\* followed by `?`: a failed send ends run with the error.
AfterSend(sent, next) == IF sent THEN next ELSE "failed"

\* lib.rs:329: the loop asks for the next line only when the arm of the
\* line before has run to its end.
SdkReadsWhileHandling == sdkPc \in {"reading", "initializing", "executing"} /\ sdkIn # <<>>
SdkReads == sdkPc = "reading" /\ sdkIn # <<>>

\* lib.rs:331-333: a line that is empty after trim is skipped.
SdkSkipBlank ==
    /\ SdkReads
    /\ IsBlank(Head(sdkIn))
    /\ sdkIn' = Tail(sdkIn)
    /\ UNCHANGED <<sdkInOpen, sdkOut, sdkPc, sdkInitialized, registry, sdkReq,
                   fedCount, registerLog, userInitCalls, userExecCalls>>
    /\ UNCHANGED <<procVars, hostVars>>

\* lib.rs:335-336: a line that does not parse ends run with the error.
SdkParseError ==
    /\ SdkReads
    /\ ~IsBlank(Head(sdkIn))
    /\ ~ParseOk(Head(sdkIn))
    /\ sdkIn' = Tail(sdkIn)
    /\ sdkPc' = "failed"
    /\ UNCHANGED <<sdkInOpen, sdkOut, sdkInitialized, registry, sdkReq,
                   fedCount, registerLog, userInitCalls, userExecCalls>>
    /\ UNCHANGED <<procVars, hostVars>>

\* lib.rs:342
SdkAlreadyInitializedNever == FALSE
SdkAlreadyInitialized == sdkInitialized

\* lib.rs:368
SdkNotInitialized == ~sdkInitialized

\* lib.rs:341-357: an initialize request; the plugin's initialize is
\* called unless the runtime is initialized already.
SdkInitialize(sent) ==
    /\ SdkReads
    /\ ~IsBlank(Head(sdkIn))
    /\ ParseOk(Head(sdkIn))
    /\ LET request == Parse(Head(sdkIn)) IN
        /\ request.payload.variant = "Initialize"
        /\ sdkIn' = Tail(sdkIn)
        /\ IF SdkAlreadyInitialized
           THEN /\ SendMessage(Response(request.id,
                                        CommandError("plugin already initialized")),
                               sent)
                /\ sdkPc' = AfterSend(sent, "reading")
                /\ UNCHANGED <<sdkReq, userInitCalls>>
           ELSE /\ sdkPc' = "initializing"
                /\ sdkReq' = request
                /\ userInitCalls' = userInitCalls + 1
                /\ UNCHANGED sdkOut
    /\ UNCHANGED <<sdkInOpen, sdkInitialized, registry, fedCount, registerLog,
                   userExecCalls>>
    /\ UNCHANGED <<procVars, hostVars>>

\* CommandRegistry::register_command: the result and the registry after it.
RegisterCommandNoCheck(reg, command) ==
    [ok |-> TRUE,
     registry |-> [commands |-> Append(reg.commands, command),
                   seen |-> reg.seen \cup {command.id}]]
RegisterCommand(reg, command) ==
    IF command.id \in reg.seen
    THEN [ok |-> FALSE, registry |-> reg]
    ELSE [ok |-> TRUE,
          registry |-> [commands |-> Append(reg.commands, command),
                        seen |-> reg.seen \cup {command.id}]]

\* The plugin's initialize calls register_command.
UserRegister(id) ==
    /\ sdkPc = "initializing"
    /\ Len(registerLog) < MaxRegisters
    /\ LET r == RegisterCommand(registry, CommandFor(id)) IN
        /\ registry' = r.registry
        /\ registerLog' = Append(registerLog, [id |-> id, ok |-> r.ok])
    /\ UNCHANGED <<sdkIn, sdkInOpen, sdkOut, sdkPc, sdkInitialized, sdkReq,
                   fedCount, userInitCalls, userExecCalls>>
    /\ UNCHANGED <<procVars, hostVars>>

\* The plugin emits an event through its context (lib.rs:259-312) while it
\* initializes or executes; one event for each call at most.  A failed send
\* is an Err for the plugin's code, which goes on.
UserEmit(sent) ==
    /\ sdkPc \in {"initializing", "executing"}
    /\ IF sdkOut = <<>> THEN TRUE
       ELSE sdkOut[Len(sdkOut)].origin.variant # "Event"
    /\ SendMessage(Event(Emitted(sdkPc)), sent)
    /\ UNCHANGED <<sdkIn, sdkInOpen, sdkPc, sdkInitialized, registry, sdkReq,
                   fedCount, registerLog, userInitCalls, userExecCalls>>
    /\ UNCHANGED <<procVars, hostVars>>

\* lib.rs:355-365: the plugin's initialize returns; an error ends run, Ok
\* sends the registered commands and, if that succeeds, sets `initialized`.
UserInitReturn(ok, sent) ==
    /\ sdkPc = "initializing"
    /\ IF ok
       THEN /\ SendMessage(Response(sdkReq.id, Initialized(registry.commands)), sent)
            /\ sdkInitialized' = (sdkInitialized \/ sent)
            /\ sdkPc' = AfterSend(sent, "reading")
       ELSE /\ sdkPc' = "failed"
            /\ UNCHANGED <<sdkOut, sdkInitialized>>
    /\ UNCHANGED <<sdkIn, sdkInOpen, registry, sdkReq, fedCount, registerLog,
                   userInitCalls, userExecCalls>>
    /\ UNCHANGED <<procVars, hostVars>>

\* lib.rs:367-381: an execute request; the plugin's execute is called if
\* the runtime is initialized.
SdkExecute(sent) ==
    /\ SdkReads
    /\ ~IsBlank(Head(sdkIn))
    /\ ParseOk(Head(sdkIn))
    /\ LET request == Parse(Head(sdkIn)) IN
        /\ request.payload.variant = "Execute"
        /\ sdkIn' = Tail(sdkIn)
        /\ IF SdkNotInitialized
           THEN /\ SendMessage(Response(request.id,
                                        CommandError("plugin not initialized")),
                               sent)
                /\ sdkPc' = AfterSend(sent, "reading")
                /\ UNCHANGED <<sdkReq, userExecCalls>>
           ELSE /\ sdkPc' = "executing"
                /\ sdkReq' = request
                /\ userExecCalls' = userExecCalls + 1
                /\ UNCHANGED sdkOut
    /\ UNCHANGED <<sdkInOpen, sdkInitialized, registry, fedCount, registerLog,
                   userInitCalls>>
    /\ UNCHANGED <<procVars, hostVars>>

\* lib.rs:381-397: the plugin's execute returns.
UserExecReturn(outcome, sent) ==
    /\ sdkPc = "executing"
    /\ SendMessage(Response(sdkReq.id,
                            IF outcome.ok THEN CommandResult(outcome.result)
                            ELSE CommandError(outcome.error)),
                   sent)
    /\ sdkPc' = AfterSend(sent, "reading")
    /\ UNCHANGED <<sdkIn, sdkInOpen, sdkInitialized, registry, sdkReq, fedCount,
                   registerLog, userInitCalls, userExecCalls>>
    /\ UNCHANGED <<procVars, hostVars>>

\* lib.rs:405
AfterShutdownContinues == "reading"
AfterShutdown == "returned"

\* lib.rs:399-406: a shutdown request.
SdkShutdown(sent) ==
    /\ SdkReads
    /\ ~IsBlank(Head(sdkIn))
    /\ ParseOk(Head(sdkIn))
    /\ LET request == Parse(Head(sdkIn)) IN
        /\ request.payload.variant = "Shutdown"
        /\ sdkIn' = Tail(sdkIn)
        /\ SendMessage(Response(request.id, Acknowledge), sent)
        /\ sdkPc' = AfterSend(sent, AfterShutdown)
    /\ UNCHANGED <<sdkInOpen, sdkInitialized, registry, sdkReq, fedCount,
                   registerLog, userInitCalls, userExecCalls>>
    /\ UNCHANGED <<procVars, hostVars>>

\* lib.rs:329, 410: the end of stdin ends the loop and run returns Ok.
SdkEof ==
    /\ sdkPc = "reading"
    /\ sdkIn = <<>>
    /\ ~sdkInOpen
    /\ sdkPc' = "returned"
    /\ UNCHANGED <<sdkIn, sdkInOpen, sdkOut, sdkInitialized, registry, sdkReq,
                   fedCount, registerLog, userInitCalls, userExecCalls>>
    /\ UNCHANGED <<procVars, hostVars>>

NextSdk ==
    \/ \E p \in Payloads : FeedRequest(p)
    \/ \E text \in NoiseTexts : FeedText(text)
    \/ \E v \in BadRequests : FeedJson(v)
    \/ FeedClose
    \/ SdkSkipBlank
    \/ SdkParseError
    \/ \E sent \in BOOLEAN : SdkInitialize(sent)
    \/ \E id \in CommandIds : UserRegister(id)
    \/ \E sent \in BOOLEAN : UserEmit(sent)
    \/ \E ok, sent \in BOOLEAN : UserInitReturn(ok, sent)
    \/ \E sent \in BOOLEAN : SdkExecute(sent)
    \/ \E outcome \in ExecOutcomes, sent \in BOOLEAN : UserExecReturn(outcome, sent)
    \/ \E sent \in BOOLEAN : SdkShutdown(sent)
    \/ SdkEof

\* ------------------------------------------------------ the specifications

vars == <<procVars, hostVars, sdkVars>>

\* One PluginProcess and its callers; the manager is left alone.
InitOneProcess == InitProc /\ InitHost /\ InitSdk /\ manifest = "ok"
Spec == InitOneProcess /\ [][NextProc]_vars

\* The steps of the send_request call c that the scheduler alone decides:
\* taking a lock that is free, and being woken by a value on the channel.
\* The two write_all (plugin.rs:120-127) are not among them: a write stays
\* pending while the pipe is full and the plugin does not read its stdin.
CallStep(c) ==
    \/ InsertPending(c)
    \/ LockWriter(c)
    \/ Flush(c)
    \/ AwaitReply(c)

\* The plugin has the whole request i on its stdin, the call waits for the
\* answer and no response carrying i is on its way.
Owes(i) ==
    /\ i \in DOMAIN pending
    /\ \E k \in 1..Len(stdinLog) : stdinLog[k] = Newline(i)
    /\ \A k \in 1..Len(stdout) : stdout[k] # ResponseLine(i)

\* A plugin that answers the requests it has read, or closes its stdout.
PluginDuty ==
    \/ \E i \in LineIds : Owes(i) /\ PluginWrite(i)
    \/ (\E i \in LineIds : Owes(i)) /\ PluginCloseStdout

\* The same process under a fair scheduler and with such a plugin: a call
\* that can take a step of CallStep takes it, the stdout task reads a line
\* that is there and sees the end or the failure of the stream.
FairProcess ==
    /\ \A c \in Calls : WF_vars(CallStep(c))
    /\ WF_vars(ReaderLine)
    /\ WF_vars(ReaderEof)
    /\ WF_vars(ReaderReadError)
    /\ WF_vars(PluginDuty)
SpecLive == InitOneProcess /\ [][NextProc]_vars /\ FairProcess

\* The manager and the LSP handlers; every send_request is one step that
\* starts it and one that gives its outcome.
Init == InitProc /\ InitHost /\ InitSdk
SpecHost == Init /\ [][NextHost]_vars

\* The SDK's runtime::run with the host's requests and the plugin's code.
InitSdkRuntime == InitProc /\ InitHost /\ InitSdk /\ manifest = "ok"
SpecSdk == InitSdkRuntime /\ [][NextSdk]_vars

\* The two wires of one plugin: the host's side of its stdout (the process
\* and its callers) and the SDK's side of its stdin. The two sides share no
\* state, and a behaviour follows one of them from the initial state.
ProcessSide == InitSdk /\ NextProc
SdkSide == InitProc /\ NextSdk
NextWire == ProcessSide \/ SdkSide
InitWire == InitProc /\ InitHost /\ InitSdk /\ manifest = "ok"
SpecWire == InitWire /\ [][NextWire]_vars


\* ------------------------------------------------- claims about the process

WriteErrors == {"failed to write plugin request",
                "failed to delimit plugin request",
                "failed to flush plugin request"}

\* C1: a response carrying id i reaches only the call that was allocated id
\* i: whatever a call's channel holds or the call returned, if it came from
\* a response line, that line carried the call's own id.
C1_NoCrossTalk ==
    \A c \in Calls :
        /\ (chan[c].state = "sent" /\ chan[c].value.origin # 0)
              => chan[c].value.origin = reqId[c]
        /\ (result[c].tag = "Ok" /\ result[c].value.origin # 0)
              => result[c].value.origin = reqId[c]

\* The plugin answered id 2 before id 1 and each call got its own result.
C1_Witness ==
    /\ delivered = <<2, 1>>
    /\ result[1] = Ok(PluginResult(1))
    /\ result[2] = Ok(PluginResult(2))

\* C2: the ids start at 1 and strictly increase in allocation order (calls
\* are numbered in that order), and no id is inserted into the pending map
\* twice.
C2_IdsFreshAndIncreasing ==
    /\ pc[1] # "idle" => reqId[1] = 1
    /\ \A c, d \in Calls : (c < d /\ pc[d] # "idle") => reqId[c] < reqId[d]
    /\ \A i \in LineIds : insertCount[i] <= 1

\* Every call has its id and its entry was inserted.
C2_Witness ==
    \A c \in Calls : pc[c] \notin {"idle", "insert"} /\ insertCount[reqId[c]] = 1

\* C3: every entry inserted into the pending map is removed exactly once.
\* Stated for the states in which nothing can remove an entry any more: the
\* reader task has exited and no send_request call is running; there every
\* id was removed as often as it was inserted.
C3_EveryEntryRemoved ==
    (readerState = "exited" /\ \A c \in Calls : pc[c] \in {"idle", "done"})
        => \A i \in LineIds : removeCount[i] = insertCount[i]

\* C4 as claimed: every call whose id the drain removed returns the
\* synthetic disconnect error.
C4_DrainedCallsReturnDisconnected ==
    \A c \in Calls :
        (reqId[c] \in drained /\ pc[c] = "done") => result[c] = Ok(Disconnected)

\* C4 as amended: the drain empties the map and sends every waiter the
\* synthetic disconnect error; the call returns it unless its own write to
\* the plugin's stdin fails, in which case it returns the write error.
C4_DrainedCallsReturnDisconnectedOrWriteError ==
    /\ \A c \in Calls :
          (reqId[c] \in drained /\ pc[c] = "done")
              => \/ result[c] = Ok(Disconnected)
                 \/ (result[c].tag = "Err" /\ result[c].error \in WriteErrors)
    /\ \A c \in Calls :
          (reqId[c] \in drained /\ pc[c] # "done") => chan[c] = ChanSent(Disconnected)
    /\ drained \cap DOMAIN pending = {}

\* The drain has run while one call had inserted its entry and not written
\* yet, and another call has returned the synthetic error.
C4_Witness ==
    /\ readerState = "exited"
    /\ \E c, d \in Calls :
          /\ pc[c] = "lock_writer" /\ reqId[c] \in drained
          /\ chan[c] = ChanSent(Disconnected)
          /\ pc[d] = "done" /\ reqId[d] \in drained /\ result[d] = Ok(Disconnected)

\* C5: once the plugin's stdout has closed and the reader has drained, the
\* pending map is empty and stays empty, and no call waits on a channel
\* nobody will ever send to.
C5_NoStuckWaiters ==
    readerState = "exited"
        => /\ DOMAIN pending = {}
           /\ \A c \in Calls : ~(pc[c] = "await" /\ chan[c].state = "empty")

\* C6: a second request is written without waiting for the reply to the
\* first: while one call awaits its reply, a call that wants the writer can
\* take it.
C6_SecondRequestNotBlocked ==
    \A a, b \in Calls :
        (pc[a] = "await" /\ chan[a].state = "empty" /\ pc[b] = "lock_writer")
            => ENABLED LockWriter(b)

\* C7: a call awaiting its reply channel does not hold the writer lock.
C7_WriterReleasedBeforeAwait ==
    \A c \in Calls : pc[c] = "await" => writerHolder # c

\* C8: on the plugin's stdin every request body is followed at once by its
\* own newline, and every newline follows its own body.
C8_FramesContiguous ==
    \A k \in 1..Len(stdinLog) :
        /\ (stdinLog[k].part = "body" /\ k < Len(stdinLog))
              => stdinLog[k + 1] = Newline(stdinLog[k].id)
        /\ stdinLog[k].part = "newline"
              => (k > 1 /\ stdinLog[k - 1] = Body(stdinLog[k].id))

\* Two whole frames were written, the later id first: the two calls
\* contended for the writer.
C8_Witness ==
    /\ Len(stdinLog) >= 4
    /\ stdinLog[1] = Body(2) /\ stdinLog[2] = Newline(2)
    /\ stdinLog[3] = Body(1) /\ stdinLog[4] = Newline(1)



\* ----------------------------------------- more claims about the process

\* The reader takes the first line off the plugin's stdout in this step.
ReaderStep == readerState = "running" /\ stdout # <<>> /\ stdout' = Tail(stdout)

\* C21: once every handle of the child is gone without a shutdown, the
\* child is killed in the end, also when it keeps its stdout open.
C21_DroppedHandlesKill == (handles = "dropped") ~> (child = "killed")

\* The MessageType the editor is to get for each MessageLevel.
ExpectedType == [error |-> "ERROR", warning |-> "WARNING", info |-> "INFO", log |-> "LOG"]

\* C24: every event line the reader reads is forwarded to the editor,
\* show_message as window/showMessage and log as window/logMessage with the
\* level kept, whatever requests are pending, and the step leaves the pending
\* map and every waiter as they were.
C24_EventsForwarded ==
    [][(ReaderStep /\ Head(stdout).kind \in {"show_message", "log"})
          => /\ forwarded' = Append(forwarded,
                   [method |-> IF Head(stdout).kind = "show_message"
                                 THEN "window/showMessage" ELSE "window/logMessage",
                    type |-> ExpectedType[Head(stdout).level]])
             /\ UNCHANGED <<pending, chan, insertCount, removeCount, delivered>>]_vars

\* Two events, an error message and a log line, reached the editor while
\* the first request (the handshake) was still waiting for its response.
C24_Witness ==
    /\ forwarded = <<[method |-> "window/showMessage", type |-> "ERROR"],
                     [method |-> "window/logMessage", type |-> "LOG"]>>
    /\ delivered = <<>>
    /\ pc[1] = "await" /\ chan[1].state = "empty"
    /\ DOMAIN pending = {1}

\* C28: a line that cannot be read or does not decode, and a response whose
\* id is not in the pending map, change neither the map nor any waiter, and
\* the reader goes on; a waiter that was sent a value is never sent another,
\* and a call that returned keeps its result.
C28_BadLinesDiscarded ==
    [][/\ (ReaderStep
              /\ \/ NextLineFails(Head(stdout))
                 \/ DecodeLine(Head(stdout)) = "Err"
                 \/ (DecodeLine(Head(stdout)) = "Response"
                        /\ Head(stdout).id \notin DOMAIN pending))
             => /\ UNCHANGED <<pending, chan, removeCount, delivered, forwarded>>
                /\ readerState' = "running"
       /\ \A c \in Calls :
             /\ chan[c].state = "sent" => chan'[c] = chan[c]
             /\ result[c] # NoResult => result'[c] = result[c]]_vars

\* C29: every id of which a byte was written to the plugin's stdin was
\* inserted into the pending map before, and is in the map unless a response
\* or the drain removed it.
C29_InsertedBeforeWritten ==
    \A k \in 1..Len(stdinLog) :
        /\ insertCount[stdinLog[k].id] >= 1
        /\ \/ stdinLog[k].id \in DOMAIN pending
           \/ removeCount[stdinLog[k].id] >= 1

\* The body of request 1 is written, its newline is not, and its entry is
\* already in the map.
C29_Witness ==
    /\ stdinLog = <<Body(1)>>
    /\ pc[1] = "write_newline"
    /\ 1 \in DOMAIN pending /\ removeCount[1] = 0

\* C30: a call whose write failed has returned the write error, does not
\* hold the writer, and once the plugin's stdout has reached EOF and the
\* drain has run its entry is gone from the pending map.
C30_WriteErrorReturnedAndDrained ==
    \A c \in Calls :
        (pc[c] = "done" /\ result[c].tag = "Err" /\ result[c].error \in WriteErrors)
            => /\ writerHolder # c
               /\ readerState = "exited" => reqId[c] \notin DOMAIN pending


\* ---------------------------------------------------- claims about the host

\* C9: a task that awaits a plugin's reply (to the handshake's initialize,
\* to execute, or to shutdown) does not hold the manager lock.
C9_ManagerLockFreeWhileAwaiting ==
    \A t \in Tasks :
        tpc[t] \in {"handshake_await", "execute_await", "shutdown_await"}
            => mgrLock # t

\* C10 as claimed: without an intervening shutdown the initialize calls
\* load the manifest exactly once and spawn and handshake every declared
\* plugin exactly once.
C10_OneLoadOneSpawn ==
    /\ loads <= 1
    /\ \A e \in Entries : spawns[e] <= 1 /\ handshakes[e] <= 1
    /\ initialized => (loads = 1 /\ \A e \in ManifestPlugins : spawns[e] = 1)

\* An ensure_initialized call is past the load and has not returned.
EnsureRunning == \E t \in Tasks : tpc[t] \in {"spawn", "handshake_await"}

\* C10 as amended: without an intervening shutdown at most one
\* ensure_initialized call loads the manifest and succeeds, every call after
\* it is a no-op, and each call that loads spawns and handshakes every
\* declared plugin at most once; only a call that fails (the manifest cannot
\* be read or parsed, a handshake returns an error) leaves initialized false
\* and lets the next call load and spawn again.
C10_OneSuccessfulInitialization ==
    /\ successInits <= 1
    /\ initialized <=> successInits = 1
    /\ loads = failedInits + successInits + (IF EnsureRunning THEN 1 ELSE 0)
    /\ \A e \in Entries : spawns[e] <= loads /\ handshakes[e] <= spawns[e]
    /\ failedInits = 0 => C10_OneLoadOneSpawn

\* Two initialize calls have returned their capabilities after one load,
\* one spawn and one handshake per declared plugin.
C10_Witness ==
    /\ tkind[1] = "initialize" /\ tpc[1] = "done" /\ tout[1] = Returned("Ok", {0, 1, 2})
    /\ tkind[2] = "initialize" /\ tpc[2] = "done" /\ tout[2] = Returned("Ok", {0, 1, 2})
    /\ loads = 1
    /\ \A e \in Entries : spawns[e] = 1 /\ handshakes[e] = 1

\* ------------------------------------------------ more claims about the host

Max(S) == CHOOSE x \in S : \A y \in S : x >= y
Range(f) == {f[i] : i \in DOMAIN f}

\* A shutdown_all call is running.
ShutdownRunning ==
    \E t \in Tasks : tpc[t] \in {"shutdown_next", "shutdown_await", "shutdown_wait"}

\* The command ids of the initialized responses of the plugins in the list.
RegisteredIds == UNION {EntryCommands(procs[p].entry) : p \in Range(plugins)}

\* The positions in the plugin list of the plugins that announced command k.
Registrants(k) ==
    {i \in 1..Len(plugins) : k \in EntryCommands(procs[plugins[i]].entry)}

\* C11: a plugin whose spawn or handshake fails is skipped: an initialize
\* call that could read the manifest returns success, and the
\* ensure_initialized call that met a failed handshake goes on and succeeds.
C11_FailedPluginSkipped ==
    /\ \A t \in Tasks :
          (tkind[t] = "initialize" /\ tpc[t] = "done" /\ manifest # "malformed")
              => tout[t].outcome = "Ok"
    /\ \A p \in DOMAIN procs :
          procs[p].handshake = "error"
              => \/ tpc[procs[p].by] \in {"spawn", "handshake_await", "command_names"}
                 \/ tout[procs[p].by].outcome = "Ok"

\* C12: a plugin that answered the handshake with anything but initialized
\* is kept: while the ensure_initialized call that spawned it is still
\* running it is alive and in the plugin list, and no command is bound to it.
C12_AnomalousPluginKept ==
    \A p \in DOMAIN procs :
        (procs[p].handshake = "anomaly"
             /\ tpc[procs[p].by] \in {"spawn", "handshake_await"})
            => /\ procs[p].alive
               /\ p \in Range(plugins)
               /\ \A k \in DOMAIN commands : commands[k] # p

\* C13: shutdown_all shuts the plugins down one after another in declared
\* order, and when it has returned (nothing was loaded since) the registry
\* and the plugin list are empty, initialized is false, and no process that
\* answered its handshake is left running.
C13_ShutdownReachesEveryProcess ==
    /\ \A i, j \in 1..Len(plugins) :
          i < j => procs[plugins[i]].entry < procs[plugins[j]].entry
    /\ ShutdownRunning
          => \A j \in 1..Len(plugins) :
                (~procs[plugins[j]].alive) <=> (j < tidx[mgrLock])
    /\ loads = 0
          => /\ plugins = <<>> /\ commands = <<>> /\ ~initialized
             /\ \A p \in DOMAIN procs :
                   procs[p].handshake \in {"initialized", "anomaly"} => ~procs[p].alive

\* C14: initialized becomes true only in the step that ends a successful
\* ensure_initialized, and only from false; it becomes false only in the
\* step that ends shutdown_all, which always leaves it false; an initialize
\* call that fails leaves it false.
C14_InitializedSetOnce ==
    [][/\ (~initialized /\ initialized') => \E t \in Tasks : EnsureDone(t)
       /\ (\E t \in Tasks : EnsureDone(t)) => ~initialized
       /\ (initialized /\ ~initialized') => \E t \in Tasks : ShutdownDone(t)
       /\ (\E t \in Tasks : ShutdownDone(t)) => ~initialized'
       /\ \A t \in Tasks :
             (tkind[t] = "initialize" /\ tpc[t] # "done" /\ tpc'[t] = "done"
                  /\ tout'[t].outcome # "Ok")
                 => (~initialized /\ ~initialized')]_vars

\* The flag went true, false and true again: two initialize calls succeeded
\* around a shutdown, each after spawning both plugins.
C14_Witness ==
    /\ initialized
    /\ Len(procs) = 4
    /\ tkind = <<"initialize", "shutdown", "initialize">>
    /\ \A t \in Tasks : tpc[t] = "done" /\ tout[t].outcome = "Ok"

\* C15: once a shutdown has completed and the initialize calls that came
\* after it have returned, the manifest was loaded again, every declared
\* plugin was spawned again and handshaken, and every binding of the
\* registry points to a process spawned since.
C15_ReinitializeRespawnsAll ==
    ((\E s \in Tasks : tkind[s] = "shutdown" /\ tpc[s] = "done")
         /\ loads >= 1 /\ ~EnsureRunning /\ ~ShutdownRunning /\ manifest = "ok")
        => /\ \A e \in Entries : spawns[e] >= 1 /\ handshakes[e] <= spawns[e]
           /\ \A k \in DOMAIN commands : procs[commands[k]].alive

\* C16: every command id is bound to the last plugin of the list that
\* announced it; an execute request goes to the plugin its lookup found,
\* one that announced the command in its initialized response and that no
\* later plugin of the same initialization overrode; the plugins of the
\* list, an overridden one included, stay alive until shutdown_all.
C16_LastRegistrantRoutes ==
    /\ \A k \in DOMAIN commands :
          /\ Registrants(k) # {}
          /\ commands[k] = plugins[Max(Registrants(k))]
    /\ \A t \in Tasks :
          tpc[t] \in {"execute_send", "execute_await"}
              => /\ procs[tproc[t]].handshake = "initialized"
                 /\ tcmd[t] \in EntryCommands(procs[tproc[t]].entry)
                 /\ \A q \in DOMAIN procs :
                       (q > tproc[t] /\ procs[q].by = procs[tproc[t]].by
                            /\ procs[q].handshake = "initialized")
                           => tcmd[t] \notin EntryCommands(procs[q].entry)
    /\ ~ShutdownRunning => \A p \in Range(plugins) : procs[p].alive

\* Both plugins registered the shared command 0; an execute of 0 went to the
\* second plugin and an execute of the first plugin's own command to the
\* first.
C16_Witness ==
    /\ Len(plugins) = 2
    /\ tkind = <<"initialize", "execute", "execute">>
    /\ tcmd[2] = 0 /\ tpc[2] = "execute_await" /\ tproc[2] = plugins[2]
    /\ tcmd[3] = 1 /\ tpc[3] = "execute_await" /\ tproc[3] = plugins[1]
    /\ procs[plugins[1]].alive

\* C17: whenever the manager lock is free, the keys of the registry are the
\* union of the command ids of the initialized responses of the plugins in
\* the list, and every binding points to a plugin of the list.
C17_RegistryMatchesPlugins ==
    mgrLock = 0
        => /\ DOMAIN commands = RegisteredIds
           /\ \A k \in DOMAIN commands : commands[k] \in Range(plugins)

\* The lock is free after an initialization in which only the second plugin
\* answered initialized: the registry holds exactly its commands.
C17_Witness ==
    /\ mgrLock = 0
    /\ initialized
    /\ Len(procs) = 2
    /\ Len(plugins) = 1
    /\ procs[plugins[1]].entry = 2
    /\ DOMAIN commands = {0, 2}

\* C18: the commands an initialize call returns are the command ids the
\* plugin handshakes had registered when its ensure_initialized returned,
\* whatever runs between that and the reading of the command names.
C18_ReturnedEqualsHandshakes ==
    [][\A t \in Tasks :
          (tpc[t] = "command_names" /\ tpc'[t] = "done")
              => tout'[t].commands = seen[t]]_vars

\* C19: an executeCommand whose id is not a key of the registry when it
\* looks it up returns MethodNotFound, sends no request and changes nothing
\* of the manager, the plugins or the other handlers.
C19_UnknownCommandNotFound ==
    [][\A t \in Tasks :
          (tkind[t] = "execute" /\ tpc[t] = "lock" /\ tpc'[t] # "lock"
               /\ tcmd[t] \notin DOMAIN commands)
              => /\ tpc'[t] = "done"
                 /\ tout'[t] = Returned("MethodNotFound", {})
                 /\ tproc' = tproc
                 /\ UNCHANGED <<manifest, mgrLock, initialized, plugins,
                                commands, procs, loads, spawns, handshakes>>
                 /\ \A u \in Tasks \ {t} : tpc'[u] = tpc[u] /\ tout'[u] = tout[u]]_vars

\* The manifest is missing: initialize returned no commands and an
\* executeCommand of a command the plugins would announce got MethodNotFound.
C19_Witness ==
    /\ manifest = "missing"
    /\ initialized
    /\ tkind = <<"initialize", "execute", "none">>
    /\ tcmd[2] = 0
    /\ tout[1] = Returned("Ok", {})
    /\ tout[2] = Returned("MethodNotFound", {})

\* C20: executeCommand returns, for command_result, success with the
\* plugin's value (null included); for command_error, InternalError with the
\* plugin's message; for initialized or acknowledge, InternalError citing an
\* unexpected response.
C20_ExecuteOutcomeTable ==
    [][\A t \in Tasks : \A r \in Replies :
          (\E ended \in BOOLEAN : ExecuteReply(t, r, ended))
              => /\ r.type = "command_result"
                    => tout'[t] = ExecuteReturned("Ok", r.payload)
                 /\ r.type = "command_error"
                    => tout'[t] = ExecuteReturned("InternalError", r.payload)
                 /\ r.type \in {"initialized", "acknowledge"}
                    => tout'[t] = ExecuteReturned("InternalError", UnexpectedResponse)]_vars

\* One executeCommand returned success with null, another the InternalError
\* for an acknowledge or initialized response.
C20_Witness ==
    /\ tkind = <<"initialize", "execute", "execute">>
    /\ tout[2] = ExecuteReturned("Ok", "null")
    /\ tout[3] = ExecuteReturned("InternalError", UnexpectedResponse)


\* ---------------------------------------------------- claims about the SDK

\* C25: every request on the plugin's stdin decodes to the request it was
\* encoded from, and every message on the plugin's stdout decodes to the
\* message it was encoded from, a command_result of Some(null) included.
C25_RoundTrip ==
    /\ \A i \in DOMAIN sdkIn :
          (sdkIn[i].text = "json" /\ sdkIn[i].origin # RequestErr)
              => DecodeRequest(sdkIn[i].json) = sdkIn[i].origin
    /\ \A i \in DOMAIN sdkOut :
          DecodeMessage(sdkOut[i].json) = sdkOut[i].origin

\* The loop takes the next line from stdin, and it is a request of `variant`.
SdkTakes(variant) ==
    /\ SdkReads
    /\ sdkIn' = Tail(sdkIn)
    /\ Head(sdkIn).text = "json"
    /\ Head(sdkIn).origin.payload.variant = variant

\* The line send_message writes for the answer `r` to the request at the
\* head of stdin.
Answer(r) == MessageLine(Response(Head(sdkIn).origin.id, r))

\* C22: an execute read before a successful initialize is answered with
\* command_error "plugin not initialized" and the plugin's execute is not
\* called; an initialize read after a successful initialize is answered with
\* command_error "plugin already initialized"; once initialized, the
\* plugin's initialize is not called again and the commands do not change;
\* and the runtime becomes initialized only by sending `initialized`.
C22_StateGuard ==
    [][ /\ (SdkTakes("Execute") /\ ~sdkInitialized)
            => /\ sdkOut' = Append(sdkOut, Answer(CommandError("plugin not initialized")))
               /\ sdkPc' = "reading"
               /\ UNCHANGED <<userExecCalls, userInitCalls, registry, sdkInitialized>>
        /\ (SdkTakes("Initialize") /\ sdkInitialized)
            => /\ sdkOut' = Append(sdkOut, Answer(CommandError("plugin already initialized")))
               /\ sdkPc' = "reading"
               /\ UNCHANGED <<userExecCalls, userInitCalls, registry, sdkInitialized>>
        /\ sdkInitialized => UNCHANGED <<userInitCalls, registry, sdkInitialized>>
        /\ userExecCalls' # userExecCalls => sdkInitialized
        /\ (sdkInitialized' /\ ~sdkInitialized)
            => /\ sdkPc = "initializing"
               /\ sdkOut' = Append(sdkOut, MessageLine(Response(sdkReq.id,
                                              Initialized(registry.commands))))
      ]_vars

\* The step wrote `line` and the loop goes on, or the write failed: nothing
\* was written and run returned the error.
AnsweredOrFailed(line) ==
    \/ sdkOut' = Append(sdkOut, line) /\ sdkPc' = "reading"
    \/ sdkOut' = sdkOut /\ sdkPc' = "failed"

\* C22, amended: as C22, but the answer is written unless the write to
\* stdout fails; then nothing is written and run returns the error, still
\* without calling the plugin's code or changing the commands.
C22_StateGuardUnlessWriteFails ==
    [][ /\ (SdkTakes("Execute") /\ ~sdkInitialized)
            => /\ AnsweredOrFailed(Answer(CommandError("plugin not initialized")))
               /\ UNCHANGED <<userExecCalls, userInitCalls, registry, sdkInitialized>>
        /\ (SdkTakes("Initialize") /\ sdkInitialized)
            => /\ AnsweredOrFailed(Answer(CommandError("plugin already initialized")))
               /\ UNCHANGED <<userExecCalls, userInitCalls, registry, sdkInitialized>>
        /\ sdkInitialized => UNCHANGED <<userInitCalls, registry, sdkInitialized>>
        /\ userExecCalls' # userExecCalls => sdkInitialized
        /\ (sdkInitialized' /\ ~sdkInitialized)
            => /\ sdkPc = "initializing"
               /\ sdkOut' = Append(sdkOut, MessageLine(Response(sdkReq.id,
                                              Initialized(registry.commands))))
      ]_vars

\* An execute was refused before the initialize and a second initialize
\* after it, and the plugin's code ran for the first initialize only.
C22_Witness ==
    /\ userInitCalls = 1
    /\ userExecCalls = 0
    /\ sdkInitialized
    /\ \E i, j \in DOMAIN sdkOut :
        /\ i < j
        /\ sdkOut[i].origin.result = CommandError("plugin not initialized")
        /\ sdkOut[j].origin.result = CommandError("plugin already initialized")

\* C23: a shutdown request the loop reads is answered with acknowledge and
\* ends the loop, initialized or not; once run has returned, no line is
\* taken from stdin, nothing is written and no plugin code is called.
C23_ShutdownEndsLoop ==
    [][ /\ SdkTakes("Shutdown")
            => /\ sdkOut' = Append(sdkOut, Answer(Acknowledge))
               /\ sdkPc' = "returned"
        /\ sdkPc = "returned"
            => /\ Len(sdkIn') >= Len(sdkIn)
               /\ UNCHANGED <<sdkOut, sdkPc, sdkInitialized, registry,
                              userInitCalls, userExecCalls>>
      ]_vars

\* C23, amended: a shutdown request the loop reads ends the loop,
\* initialized or not, and is answered with acknowledge unless the write to
\* stdout fails, in which case run returns the error; once run has
\* returned, no line is taken from stdin, nothing is written and no plugin
\* code is called.
C23_ShutdownEndsLoopUnlessWriteFails ==
    [][ /\ SdkTakes("Shutdown")
            => \/ sdkOut' = Append(sdkOut, Answer(Acknowledge)) /\ sdkPc' = "returned"
               \/ sdkOut' = sdkOut /\ sdkPc' = "failed"
        /\ sdkPc \in {"returned", "failed"}
            => /\ Len(sdkIn') >= Len(sdkIn)
               /\ UNCHANGED <<sdkOut, sdkPc, sdkInitialized, registry,
                              userInitCalls, userExecCalls>>
      ]_vars

\* The runtime was initialized, a shutdown was acknowledged and run returned
\* while a request that followed the shutdown is still on stdin.
C23_Witness ==
    /\ sdkPc = "returned"
    /\ sdkInitialized
    /\ sdkOut # <<>>
    /\ sdkOut[Len(sdkOut)].origin.result = Acknowledge
    /\ sdkIn # <<>>
    /\ sdkIn[1].text = "json"

\* The commands of the calls of register_command that returned Ok, in the
\* order of the calls.
Accepted(log) ==
    LET oks == SelectSeq(log, LAMBDA e : e.ok)
    IN  [i \in 1..Len(oks) |-> CommandFor(oks[i].id)]

\* C27: register_command returns an error exactly for an id an earlier
\* call gave, the registry holds the commands of the calls that returned
\* Ok in the order of the calls, and their ids are pairwise distinct.
C27_RegisterCommand ==
    /\ \A i \in DOMAIN registerLog :
          registerLog[i].ok
            <=> (\A j \in 1..(i - 1) : registerLog[j].id # registerLog[i].id)
    /\ registry.commands = Accepted(registerLog)
    /\ registry.seen = {registerLog[i].id : i \in DOMAIN registerLog}
    /\ \A i, j \in DOMAIN registry.commands :
          i # j => registry.commands[i].id # registry.commands[j].id

\* A second registration of an id was refused and the first one is kept.
C27_Witness ==
    /\ Len(registerLog) = 2
    /\ registerLog[1].ok
    /\ ~registerLog[2].ok
    /\ Len(registry.commands) = 1

\* C26: an empty line the host's reader takes from the plugin's stdout
\* changes neither the pending map nor a waiter, nothing is forwarded and
\* the reader goes on; an empty or whitespace-only line the SDK's loop takes
\* from stdin writes no response, changes nothing of the runtime's state
\* and does not end the loop.
C26_EmptyLinesIgnored ==
    [][ /\ (ReaderStep /\ Head(stdout) = EmptyLine)
            => /\ UNCHANGED <<pending, chan, result, pc, removeCount, delivered,
                              forwarded>>
               /\ readerState' = "running"
        /\ (SdkReads /\ sdkIn' = Tail(sdkIn) /\ Head(sdkIn).text \in {"", " \t"})
            => UNCHANGED <<sdkOut, sdkPc, sdkInitialized, registry, sdkReq,
                           userInitCalls, userExecCalls>>
      ]_vars

\* The SDK's loop was given three lines and took them all; two of them got
\* no response and called no plugin code (the empty and the whitespace-only
\* line), and the loop went on to answer the initialize.
C26_Witness ==
    /\ fedCount = 3 /\ sdkIn = <<>>
    /\ sdkPc = "reading"
    /\ sdkInitialized /\ userInitCalls = 1 /\ userExecCalls = 0
    /\ Len(sdkOut) = 1
    /\ sdkOut[1].origin.result.variant = "Initialized"


\* ----------------------------------------------- more claims about the host

\* C31: the first request send_request is called with on a process (the one
\* that gets id 1) is an initialize, and no later request to the process is
\* an initialize.
C31_OneInitializeFirst ==
    \A p \in DOMAIN procs :
        LET r == procs[p].requests
        IN  /\ Len(r) >= 1
            /\ r[1] = "initialize"
            /\ \A k \in 2..Len(r) : r[k] # "initialize"

\* A process was sent its initialize, then an execute, then a shutdown.
C31_Witness ==
    \E p \in DOMAIN procs :
        procs[p].requests = <<"initialize", "execute", "shutdown">>

\* C34: whenever the manager lock is free, every process that is still
\* running is in the manager's plugin list, and no two running processes
\* were spawned for the same manifest entry.
C34_LiveChildrenListed ==
    mgrLock = 0
        => /\ \A p \in DOMAIN procs : procs[p].alive => p \in Range(plugins)
           /\ \A p, q \in DOMAIN procs :
                 (procs[p].alive /\ procs[q].alive
                      /\ procs[p].entry = procs[q].entry) => p = q


\* ----------------------------------------------- more claims about the SDK

\* C33: a line the loop takes that is not blank and does not decode (no
\* JSON, or a payload tag that is unknown) is answered with command_error
\* "unknown request" and the loop goes on.
C33_UnknownRequestAnswered ==
    [][ (SdkReads /\ sdkIn' = Tail(sdkIn)
            /\ ~IsBlank(Head(sdkIn)) /\ ~ParseOk(Head(sdkIn)))
          => /\ sdkPc' = "reading"
             /\ Len(sdkOut') = Len(sdkOut) + 1
             /\ sdkOut'[Len(sdkOut')].origin.result = CommandError("unknown request")
      ]_vars

\* A handler of the plugin (its initialize or its execute) is running.
Handling == sdkPc \in {"initializing", "executing"}

\* The ids of the responses written so far.
ResponseIds(out) ==
    {out[i].origin.id : i \in {j \in DOMAIN out : out[j].origin.variant = "Response"}}

\* This step writes exactly the response to the request with id `id`.
Responds(id) ==
    /\ Len(sdkOut') = Len(sdkOut) + 1
    /\ SubSeq(sdkOut', 1, Len(sdkOut)) = sdkOut
    /\ sdkOut'[Len(sdkOut')].origin.variant = "Response"
    /\ sdkOut'[Len(sdkOut')].origin.id = id

\* A request that is taken is answered at once or starts its handler.
TakenIsHandled ==
    \/ Responds(Head(sdkIn).origin.id) /\ ~Handling'
    \/ Handling' /\ sdkReq' = Head(sdkIn).origin /\ sdkOut' = sdkOut

\* run returns an error in this step and writes nothing.
RunFails == sdkPc' = "failed" /\ sdkOut' = sdkOut

\* A line is taken from stdin only while no handler runs; while a handler
\* runs only whole lines are added to stdout, each an event or the response
\* to the handler's request, and the response ends the handler; responses
\* are written in the order of the requests.
OneAtATime ==
    /\ sdkIn # <<>> /\ sdkIn' = Tail(sdkIn) => ~Handling
    /\ Handling /\ sdkOut' # sdkOut
          => \/ sdkOut' = Append(sdkOut, MessageLine(Event(Emitted(sdkPc)))) /\ Handling'
             \/ Responds(sdkReq.id) /\ sdkPc' = "reading"
    /\ sdkOut' # sdkOut /\ sdkOut'[Len(sdkOut')].origin.variant = "Response"
          => \A i \in ResponseIds(sdkOut) : i < sdkOut'[Len(sdkOut')].origin.id

\* C32 as stated: one request at a time, every request that is taken is
\* answered at once or starts its handler, and every handler that ends has
\* written the response to its request.
C32_OneRequestAtATime ==
    [][ /\ OneAtATime
        /\ (\E variant \in {"Initialize", "Execute", "Shutdown"} : SdkTakes(variant))
              => TakenIsHandled
        /\ Handling /\ ~Handling' => Responds(sdkReq.id)
      ]_vars

\* C32, amended: as C32, except that an initialize that fails writes no
\* response, and that a response whose write fails is not written: in both
\* cases run returns the error and takes no further line.
C32_OneRequestAtATimeUnlessRunFails ==
    [][ /\ OneAtATime
        /\ (\E variant \in {"Initialize", "Execute", "Shutdown"} : SdkTakes(variant))
              => (TakenIsHandled \/ RunFails)
        /\ Handling /\ ~Handling' => (Responds(sdkReq.id) \/ RunFails)
        /\ sdkPc = "failed"
              => /\ Len(sdkIn') >= Len(sdkIn)
                 /\ UNCHANGED <<sdkOut, sdkPc>>
      ]_vars

\* The initialize was answered, the execute that followed wrote an event
\* and then its response, and a third request waited on stdin meanwhile.
C32_Witness ==
    /\ Len(sdkOut) = 3
    /\ sdkOut[1].origin = Response(1, Initialized(registry.commands))
    /\ sdkOut[2].origin = Event(Log("Error", "oops"))
    /\ sdkOut[3].origin.variant = "Response" /\ sdkOut[3].origin.id = 2
    /\ sdkPc = "reading"
    /\ Len(sdkIn) = 1 /\ sdkIn[1].text = "json"


\* -------------------------------------------- the order of a plugin's lines

\* C36: the lines of the plugin's stdout are taken one at a time from the
\* front, in the order they were written: a notification the editor is
\* handed is the one of the event at the front of the wire, a response that
\* is delivered is the one at the front of the wire, and no step does both;
\* so an event is handed over before a response behind it is delivered, and
\* events are handed over in the order they were written.
C36_WireOrder ==
    [][ /\ \/ stdout' = stdout
           \/ stdout # <<>> /\ stdout' = Tail(stdout)
           \/ Len(stdout') = Len(stdout) + 1 /\ SubSeq(stdout', 1, Len(stdout)) = stdout
        /\ forwarded' # forwarded
              => /\ stdout # <<>>
                 /\ DecodeLine(Head(stdout)) = "Event"
                 /\ forwarded' = Append(forwarded, Notification(Head(stdout)))
                 /\ stdout' = Tail(stdout)
                 /\ UNCHANGED <<delivered, chan, pending>>
        /\ delivered' # delivered
              => /\ stdout # <<>>
                 /\ DecodeLine(Head(stdout)) = "Response"
                 /\ delivered' = Append(delivered, Head(stdout).id)
                 /\ stdout' = Tail(stdout)
                 /\ forwarded' = forwarded
        /\ (ReaderStep /\ DecodeLine(Head(stdout)) = "Event")
              => forwarded' = Append(forwarded, Notification(Head(stdout)))
      ]_vars

\* The plugin wrote an event and then the response for id 1: the editor has
\* the notification while the response is still on the wire and call 1
\* still waits.
C36_Witness ==
    /\ forwarded = <<Notification(EventLine("show_message", "error"))>>
    /\ stdout = <<ResponseLine(1)>>
    /\ delivered = <<>>
    /\ 1 \in DOMAIN pending /\ pc[1] = "await" /\ chan[1].state = "empty"


\* ------------------------------------------------------------- progress

\* No write of a call stays pending for ever: the plugin reads its stdin.
WritesComplete ==
    \A c \in Calls : []<>(pc[c] \notin {"write_body", "write_newline"})

\* C35: under a fair scheduler, with a plugin that answers every request it
\* has read or closes its stdout, and that reads what the host writes, every
\* send_request call that was started returns, and with it the LSP call
\* that made it.
C35_EveryCallReturns ==
    WritesComplete => \A c \in Calls : (pc[c] # "idle") ~> (pc[c] = "done")

=============================================================================
